---- MODULE Spec2Model ----
(***************************************************************************)
(* Verification model of the go-api-gateway server: the service registry   *)
(* (server/registry.go), the request pipeline (server/routes.go) and the   *)
(* per-service policies under server/feature, server/auth and              *)
(* server/middleware.                                                      *)
(***************************************************************************)
EXTENDS Integers, Sequences, FiniteSets, TLC

(***************************************************************************)
(* Bounds of the model.                                                    *)
(***************************************************************************)
\* number of distinct *Service pointers a Register/Update call may pass
MaxEntry == 2

\* the nil pointer / absent map entry
Nil == 0

(***************************************************************************)
(* State.                                                                  *)
(***************************************************************************)
\* the service registry: map[string]*Service guarded by a sync.RWMutex
VARIABLES
    Services,    \* ServiceRegistry.Services: name -> *Service (Nil = absent)
    rwWriter,    \* sr.mu: the task that announced Lock() (NoTask = none)
    rwHeld,      \* sr.mu: TRUE when rwWriter holds the write lock
    rwReaders,   \* sr.mu: the tasks that hold the read lock
    mapBusy,     \* TRUE while a map assignment/delete is in progress
    task,        \* per task: the registry call it runs and its position
    stored       \* per name: the entry the completed mutations left stored

regVars == <<Services, rwWriter, rwHeld, rwReaders, mapBusy, task, stored>>

\* wall-clock time, in seconds
VARIABLES now

\* one BaseRateLimiter
VARIABLES
    limiter,     \* BaseRateLimiter fields: limitertype, Rate, Burst, Cleanup
    visitors,    \* rl.visitors: key -> *Visitor (Nil = absent)
    bucket,      \* the Visitor objects: tokens, last (rate.Limiter), LastSeen
    nextSweep,   \* the time the sleeping CleanupVisitors loop wakes up
    lreq,        \* per request: its source address and position
    admitted,    \* per source IP: the requests Allow() admitted
    sweeps,      \* whether a sweep has run
    ticks        \* number of clock steps taken

limVars == <<limiter, visitors, bucket, nextSweep, lreq, admitted, sweeps, ticks>>

\* one CircuitBreaker and the calls wrapped by its Execute
VARIABLES
    cbSettings,  \* CircuitBreaker.Settings (config.CircuitSettings)
    cb,          \* CircuitBreaker.breaker: state, generation, counts, expiry
    call,        \* per caller: position in Execute, what it saw and got
    lastRec,     \* what the last afterRequest recorded
    openedAt,    \* the time of the last transition to Open
    ncalls       \* number of Execute calls made

cbVars == <<cbSettings, cb, call, lastRec, openedAt, ncalls>>

\* the gateway: the *Service objects, the global limiter, the request in flight
VARIABLES
    svcConf,     \* per *Service: Addr, FallbackUri, IPWhiteList, Auth, Cache,
                 \*   CircuitBreaker and RateLimiter settings (NoConf = unallocated)
    svcBreaker,  \* per *Service: the gobreaker state of its CircuitBreaker
    svcCache,    \* per *Service: the go-cache store, key -> [value, expiry]
    svcVisitors, \* per *Service: RateLimiter.visitors, key -> Visitor
    svcWhitelist, \* per *Service: the keys of IPWhiteList.Whitelist
    bootConf,    \* the configuration svc1 is booted with
    glLimiter,   \* RequestHandler.RateLimiter: Enabled, Rate, Burst
    glVisitors,  \* RequestHandler.RateLimiter.visitors
    req,         \* the request being handled: inputs, position, response
    prev,        \* the last request that completed a forward
    nreq         \* number of requests received

gwVars == <<svcConf, svcBreaker, svcCache, svcVisitors, svcWhitelist, bootConf,
            glLimiter, glVisitors, req, prev, nreq>>

\* one IPWhiteList on its own: the map, the list it was last populated from
\* and the last call of Allowed with its answer
VARIABLES ipWhiteList
wlVars == <<ipWhiteList>>

\* the control plane on its own: the last POST /services/register or
\* /services/update with its body and its answer
VARIABLES post
ctlVars == <<post>>

\* units on their own: one resolvePath/createForwardURI call with its inputs
\* and results
VARIABLES forward
\* one CacheHandler under Set, Get, the janitor and the clock: its store, what
\* was last Set under each key, and the last Get with its answer
VARIABLES cache
\* one NewJwtAuth call: the settings and the reader it was given, and the
\* JwtAuth it returned
VARIABLES jwtAuth
\* the limiters constructed so far: who holds each and where its
\* CleanupVisitors goroutine is
VARIABLES sweepers
unitVars == <<forward, cache, jwtAuth, sweepers>>

vars == <<regVars, now, limVars, cbVars, gwVars, wlVars, ctlVars, unitVars>>

\* what the actions of one component leave alone
nonRegVars == <<now, limVars, cbVars, gwVars, wlVars, ctlVars, unitVars>>
nonLimVars == <<regVars, cbVars, gwVars, wlVars, ctlVars, unitVars>>
nonCbVars == <<regVars, limVars, gwVars, wlVars, ctlVars, unitVars>>
nonWlVars == <<regVars, now, limVars, cbVars, gwVars, ctlVars, unitVars>>
lockVars == <<rwWriter, rwHeld, rwReaders, mapBusy, task, stored>>
nonGwVars == <<lockVars, limVars, cbVars, wlVars, ctlVars, unitVars>>
nonUnitVars == <<regVars, now, limVars, cbVars, gwVars, wlVars, ctlVars>>

(***************************************************************************)
(* SERVICE REGISTRY: map[string]*Service guarded by a sync.RWMutex.        *)
(***************************************************************************)
Tasks == {"t1", "t2", "t3"}
NoTask == "none"
Names == {"svc1", "svc2"}
Entries == 1..MaxEntry

IdleTask == [pc |-> "idle", name |-> "", entry |-> Nil, found |-> FALSE,
             result |-> Nil, expect |-> Nil]

\* sync.RWMutex.RLock: a reader is admitted unless a writer holds the lock
\* or has announced itself (readerCount < 0)
RLockFree_NoMutex == TRUE
RLockFree == rwWriter = NoTask

\* sync.RWMutex.Lock, first half: the writer takes sr.mu.w and announces
LockAnnounceFree == rwWriter = NoTask

\* sync.RWMutex.Lock, second half: the writer waits for the readers to leave
LockAcquireFree(t) == rwWriter = t /\ ~rwHeld /\ rwReaders = {}

\* `_, ok := sr.Services[name]` of Update
UpdateFound_Always(name) == TRUE
UpdateFound(name) == Services[name] # Nil

\* a read of the map: a read that overlaps a write is a data race, and may
\* yield any value
MapRead(name) ==
    IF mapBusy THEN Entries \cup {Nil} ELSE {Services[name]}

RegInit ==
    /\ Services = [n \in Names |-> Nil]
    /\ rwWriter = NoTask
    /\ rwHeld = FALSE
    /\ rwReaders = {}
    /\ mapBusy = FALSE
    /\ task = [t \in Tasks |-> IdleTask]
    /\ stored = [n \in Names |-> Nil]

\* a task enters Register(name, s), Update(name, updated) or Deregister(name)
CallMutation(t) ==
    /\ task[t].pc = "idle"
    /\ \E op \in {"Register", "Update", "Deregister"}, n \in Names, e \in Entries :
          /\ op = "Deregister" => e = 1
          /\ task' = [task EXCEPT ![t] =
                [IdleTask EXCEPT !.pc = op, !.name = n,
                                 !.entry = IF op = "Deregister" THEN Nil ELSE e]]
    /\ UNCHANGED <<Services, rwWriter, rwHeld, rwReaders, mapBusy, stored>>
    /\ UNCHANGED nonRegVars

\* sr.mu.Lock(): announce
MutationLock(t) ==
    /\ task[t].pc \in {"Register", "Update", "Deregister"}
    /\ LockAnnounceFree
    /\ rwWriter' = t
    /\ task' = [task EXCEPT ![t].pc = task[t].pc \o "_wait"]
    /\ UNCHANGED <<Services, rwHeld, rwReaders, mapBusy, stored>>
    /\ UNCHANGED nonRegVars

\* sr.mu.Lock() returns; Register and Deregister start the map write, Update
\* tests the key first and starts the write only when it is present
MutationAcquire(t) ==
    /\ task[t].pc \in {"Register_wait", "Update_wait", "Deregister_wait"}
    /\ LockAcquireFree(t)
    /\ rwHeld' = TRUE
    /\ LET found == IF task[t].pc = "Update_wait"
                    THEN UpdateFound(task[t].name) ELSE TRUE
       IN /\ mapBusy' = found
          /\ task' = [task EXCEPT ![t].found = found,
                 ![t].pc = CASE task[t].pc = "Register_wait" -> "Register_write"
                             [] task[t].pc = "Update_wait" -> "Update_write"
                             [] OTHER -> "Deregister_write"]
    /\ UNCHANGED <<Services, rwWriter, rwReaders, stored>>
    /\ UNCHANGED nonRegVars

\* the map write completes and the deferred sr.mu.Unlock() runs
Register(t) ==
    /\ task[t].pc = "Register_write"
    /\ Services' = [Services EXCEPT ![task[t].name] = task[t].entry]
    /\ stored' = [stored EXCEPT ![task[t].name] = task[t].entry]
    /\ mapBusy' = FALSE
    /\ rwWriter' = NoTask
    /\ rwHeld' = FALSE
    /\ task' = [task EXCEPT ![t] = IdleTask]
    /\ UNCHANGED rwReaders
    /\ UNCHANGED nonRegVars

Update(t) ==
    /\ task[t].pc = "Update_write"
    /\ Services' = IF task[t].found
                   THEN [Services EXCEPT ![task[t].name] = task[t].entry]
                   ELSE Services
    \* the reference: an Update stores only over an entry that is present
    /\ stored' = IF stored[task[t].name] # Nil
                 THEN [stored EXCEPT ![task[t].name] = task[t].entry]
                 ELSE stored
    /\ mapBusy' = FALSE
    /\ rwWriter' = NoTask
    /\ rwHeld' = FALSE
    /\ task' = [task EXCEPT ![t] = IdleTask]
    /\ UNCHANGED rwReaders
    /\ UNCHANGED nonRegVars

Deregister(t) ==
    /\ task[t].pc = "Deregister_write"
    /\ Services' = [Services EXCEPT ![task[t].name] = Nil]
    /\ stored' = [stored EXCEPT ![task[t].name] = Nil]
    /\ mapBusy' = FALSE
    /\ rwWriter' = NoTask
    /\ rwHeld' = FALSE
    /\ task' = [task EXCEPT ![t] = IdleTask]
    /\ UNCHANGED rwReaders
    /\ UNCHANGED nonRegVars

\* a task enters GetService(name)
CallGetService(t) ==
    /\ task[t].pc = "idle"
    /\ \E n \in Names :
          task' = [task EXCEPT ![t] = [IdleTask EXCEPT !.pc = "GetService", !.name = n]]
    /\ UNCHANGED <<Services, rwWriter, rwHeld, rwReaders, mapBusy, stored>>
    /\ UNCHANGED nonRegVars

\* sr.mu.RLock()
GetServiceRLock(t) ==
    /\ task[t].pc = "GetService"
    /\ RLockFree
    /\ rwReaders' = rwReaders \cup {t}
    /\ task' = [task EXCEPT ![t].pc = "GetService_read"]
    /\ UNCHANGED <<Services, rwWriter, rwHeld, mapBusy, stored>>
    /\ UNCHANGED nonRegVars

\* `v, ok := sr.Services[name]`, then the deferred sr.mu.RUnlock()
GetService(t) ==
    /\ task[t].pc = "GetService_read"
    /\ \E v \in MapRead(task[t].name) :
          task' = [task EXCEPT ![t].pc = "GetService_ret", ![t].result = v,
                               ![t].expect = stored[task[t].name]]
    /\ rwReaders' = rwReaders \ {t}
    /\ UNCHANGED <<Services, rwWriter, rwHeld, mapBusy, stored>>
    /\ UNCHANGED nonRegVars

\* GetServices: json.Marshal(sr.Services) ranges over the map and takes no
\* lock (a range that overlaps a write is a data race); the bytes go to the
\* response and are not kept
GetServices(t) ==
    /\ task[t].pc = "idle"
    /\ task' = [task EXCEPT ![t].pc = "GetServices_ret"]
    /\ UNCHANGED <<Services, rwWriter, rwHeld, rwReaders, mapBusy, stored>>
    /\ UNCHANGED nonRegVars

\* Heartbeat wakes from time.Sleep and takes sr.mu.RLock(); there is one
\* heartbeat goroutine
HeartbeatRLock(t) ==
    /\ task[t].pc = "idle"
    /\ \A u \in Tasks : task[u].pc # "Heartbeat_probe"
    /\ RLockFree
    /\ rwReaders' = rwReaders \cup {t}
    /\ task' = [task EXCEPT ![t].pc = "Heartbeat_probe"]
    /\ UNCHANGED <<Services, rwWriter, rwHeld, mapBusy, stored>>
    /\ UNCHANGED nonRegVars

\* the http.Get calls of the range have returned; sr.mu.RUnlock()
Heartbeat(t) ==
    /\ task[t].pc = "Heartbeat_probe"
    /\ rwReaders' = rwReaders \ {t}
    /\ task' = [task EXCEPT ![t] = IdleTask]
    /\ UNCHANGED <<Services, rwWriter, rwHeld, mapBusy, stored>>
    /\ UNCHANGED nonRegVars

\* the caller has consumed the result
GetServiceReturn(t) ==
    /\ task[t].pc \in {"GetService_ret", "GetServices_ret"}
    /\ task' = [task EXCEPT ![t] = IdleTask]
    /\ UNCHANGED <<Services, rwWriter, rwHeld, rwReaders, mapBusy, stored>>
    /\ UNCHANGED nonRegVars

RegNext ==
    \/ \E t \in Tasks : CallMutation(t)
    \/ \E t \in Tasks : MutationLock(t)
    \/ \E t \in Tasks : MutationAcquire(t)
    \/ \E t \in Tasks : Register(t)
    \/ \E t \in Tasks : Update(t)
    \/ \E t \in Tasks : Deregister(t)
    \/ \E t \in Tasks : CallGetService(t)
    \/ \E t \in Tasks : GetServiceRLock(t)
    \/ \E t \in Tasks : GetService(t)
    \/ \E t \in Tasks : GetServices(t)
    \/ \E t \in Tasks : HeartbeatRLock(t)
    \/ \E t \in Tasks : Heartbeat(t)
    \/ \E t \in Tasks : GetServiceReturn(t)

(***************************************************************************)
(* TOKEN-BUCKET LIMITER: BaseRateLimiter, one Visitor per map key.         *)
(***************************************************************************)
\* number of requests in flight on one limiter
MaxReq == 2
\* largest configured burst and rate (tokens per second)
MaxBurst == 2
MaxRate == 1
\* number of steps the clock takes in the limiter model
LimMaxTicks == 2
\* time.Sleep(time.Minute) of CleanupVisitors
SweepEvery == 60

Reqs == 1..MaxReq
IPs == {"10.0.0.1", "10.0.0.2"}
Ports == {"1000", "2000"}
RemoteAddrs == [ip : IPs, port : Ports]

\* the map key: the middleware passes r.RemoteAddr, Service.RateLimitIP passes
\* the host part of net.SplitHostPort(r.RemoteAddr)
HostPort(addr) == addr.ip \o ":" \o addr.port
LimiterKey(kind, addr) == IF kind = "Global" THEN HostPort(addr) ELSE addr.ip
Keys == IPs \cup {HostPort(a) : a \in RemoteAddrs}

Min(a, b) == IF a < b THEN a ELSE b

\* &Visitor{Limiter: rate.NewLimiter(rl.Rate, rl.Burst), LastSeen: time.Now()}
NewVisitor(burst, t) == [tokens |-> burst, last |-> t, lastSeen |-> t]

\* rate.Limiter.advance: the tokens available at time t
Advance(v, rate, burst, t) == Min(burst, v.tokens + (t - v.last) * rate)

\* rate.Limiter.Allow at time t: whether a token is available
AllowOk(v, rate, burst, t) == Advance(v, rate, burst, t) >= 1

\* rate.Limiter.Allow at time t: the bucket afterwards (reserveN updates the
\* limiter only when the reservation is ok)
AllowTake(v, rate, burst, t) ==
    IF AllowOk(v, rate, burst, t)
    THEN [v EXCEPT !.tokens = Advance(v, rate, burst, t) - 1, !.last = t]
    ELSE v

\* CleanupVisitors: the keys the sweep at time t deletes
SweepEvicts(vis, bkt, cleanup, t) ==
    {k \in DOMAIN vis : vis[k] # Nil /\ t - bkt[vis[k]].lastSeen > cleanup}

NoVisitor == [tokens |-> 0, last |-> 0, lastSeen |-> 0]
NewReq == [pc |-> "new", addr |-> [ip |-> "", port |-> ""], v |-> Nil, ok |-> FALSE]

LimInit ==
    /\ now = 0
    /\ limiter \in [limitertype : {"Global", "Service"}, Rate : 0..MaxRate,
                    Burst : 1..MaxBurst, Cleanup : {30}]
    /\ visitors = [k \in Keys |-> Nil]
    /\ bucket = [r \in Reqs |-> NoVisitor]
    /\ nextSweep = SweepEvery
    /\ lreq = [r \in Reqs |-> NewReq]
    /\ admitted = [ip \in IPs |-> 0]
    /\ sweeps = 0
    /\ ticks = 0

\* GetVisitor, first critical section: rl.mu.Lock(); v, exists :=
\* rl.visitors[ip]; rl.mu.Unlock()
GetVisitor(r) ==
    /\ lreq[r].pc = "new"
    /\ \E a \in RemoteAddrs :
          LET v == visitors[LimiterKey(limiter.limitertype, a)]
          IN lreq' = [lreq EXCEPT ![r] =
                 [pc |-> IF v = Nil THEN "AddIP" ELSE "Allow",
                  addr |-> a, v |-> v, ok |-> FALSE]]
    /\ UNCHANGED <<now, limiter, visitors, bucket, nextSweep, admitted, sweeps, ticks>>
    /\ UNCHANGED nonLimVars

\* AddIP, second critical section: a new Visitor is stored under the key,
\* whatever the map holds by now
AddIP(r) ==
    /\ lreq[r].pc = "AddIP"
    /\ bucket' = [bucket EXCEPT ![r] = NewVisitor(limiter.Burst, now)]
    /\ visitors' = [visitors EXCEPT
                       ![LimiterKey(limiter.limitertype, lreq[r].addr)] = r]
    /\ lreq' = [lreq EXCEPT ![r].pc = "Allow", ![r].v = r]
    /\ UNCHANGED <<now, limiter, nextSweep, admitted, sweeps, ticks>>
    /\ UNCHANGED nonLimVars

\* v.Limiter.Allow() on the visitor GetVisitor returned
Allow(r) ==
    /\ lreq[r].pc = "Allow"
    /\ LET v == bucket[lreq[r].v]
           ok == AllowOk(v, limiter.Rate, limiter.Burst, now)
       IN /\ bucket' = [bucket EXCEPT ![lreq[r].v] =
                            AllowTake(v, limiter.Rate, limiter.Burst, now)]
          /\ lreq' = [lreq EXCEPT ![r] = [NewReq EXCEPT !.pc = "done", !.ok = ok]]
          /\ admitted' = IF ok
                         THEN [admitted EXCEPT ![lreq[r].addr.ip] = @ + 1]
                         ELSE admitted
    /\ UNCHANGED <<now, limiter, visitors, nextSweep, sweeps, ticks>>
    /\ UNCHANGED nonLimVars

\* one round of CleanupVisitors, then time.Sleep(time.Minute) again
CleanupVisitors ==
    /\ now >= nextSweep
    /\ visitors' = [k \in Keys |->
                       IF k \in SweepEvicts(visitors, bucket, limiter.Cleanup, now)
                       THEN Nil ELSE visitors[k]]
    /\ nextSweep' = now + SweepEvery
    /\ sweeps' = 1
    /\ UNCHANGED <<now, limiter, bucket, lreq, admitted, ticks>>
    /\ UNCHANGED nonLimVars

\* time passes: a second, the cleanup threshold, or the sweep loop's sleep
LimTick ==
    /\ ticks < LimMaxTicks
    /\ \E d \in {1, limiter.Cleanup, SweepEvery} : now' = now + d
    /\ ticks' = ticks + 1
    /\ UNCHANGED <<limiter, visitors, bucket, nextSweep, lreq, admitted, sweeps>>
    /\ UNCHANGED nonLimVars

LimNext ==
    \/ \E r \in Reqs : GetVisitor(r)
    \/ \E r \in Reqs : AddIP(r)
    \/ \E r \in Reqs : Allow(r)
    \/ CleanupVisitors
    \/ LimTick

(***************************************************************************)
(* CIRCUIT BREAKER: feature.CircuitBreaker over gobreaker.CircuitBreaker.  *)
(***************************************************************************)
\* largest configured timeout and interval, in seconds
MaxTimeout == 2
\* number of Execute calls and the horizon of the breaker model, in seconds
CbMaxCalls == 4
CbMaxTime == 4

Callers == {"c1", "c2"}

\* failureRatio, in tenths
Ratios == {0, 5, 6, 10}

\* the zero time.Time of gobreaker's expiry
NoExpiry == 0 - 1

ZeroCounts == [Requests |-> 0, TotalSuccesses |-> 0, TotalFailures |-> 0,
               ConsecutiveSuccesses |-> 0, ConsecutiveFailures |-> 0]

\* ReadyToTrip of CircuitSettings.Into: float64(TotalFailures) /
\* float64(Requests) >= FailureRatio; 0/0 is NaN and compares false, n/0 is +Inf
ReadyToTrip_Strict(counts, ratio) ==
    IF counts.Requests = 0
    THEN counts.TotalFailures > 0
    ELSE counts.TotalFailures * 10 > ratio * counts.Requests
ReadyToTrip(counts, ratio) ==
    IF counts.Requests = 0
    THEN counts.TotalFailures > 0
    ELSE counts.TotalFailures * 10 >= ratio * counts.Requests

\* CircuitSettings.Into: the gobreaker.Settings built from the configuration;
\* MaxRequests is left unset (0)
Into_Swapped(cs) ==
    [Timeout |-> cs.Interval, Interval |-> cs.Timeout, MaxRequests |-> 0,
     FailureRatio |-> cs.FailureRatio]
Into(cs) ==
    [Timeout |-> cs.Timeout, Interval |-> cs.Interval, MaxRequests |-> 0,
     FailureRatio |-> cs.FailureRatio]

\* gobreaker.NewCircuitBreaker: MaxRequests 0 means 1, Timeout 0 means 60 s
MaxRequestsOf(st) == IF st.MaxRequests = 0 THEN 1 ELSE st.MaxRequests
TimeoutOf(st) == IF st.Timeout = 0 THEN 60 ELSE st.Timeout

\* gobreaker toNewGeneration
ToNewGeneration(b, st, t) ==
    [b EXCEPT !.generation = @ + 1,
              !.counts = ZeroCounts,
              !.expiry = CASE b.state = "closed" ->
                                IF st.Interval = 0 THEN NoExpiry ELSE t + st.Interval
                           [] b.state = "open" -> t + TimeoutOf(st)
                           [] OTHER -> NoExpiry]

\* gobreaker setState
SetState(b, st, state, t) ==
    IF b.state = state THEN b
    ELSE ToNewGeneration([b EXCEPT !.state = state], st, t)

\* gobreaker currentState: the lazy transitions made when the breaker is looked at
CurrentState(b, st, t) ==
    CASE b.state = "closed" ->
            IF b.expiry # NoExpiry /\ b.expiry < t
            THEN ToNewGeneration(b, st, t) ELSE b
      [] b.state = "open" ->
            IF b.expiry < t THEN SetState(b, st, "half-open", t) ELSE b
      [] OTHER -> b

\* gobreaker.NewCircuitBreaker: Closed, first generation
NewBreaker(st, t) ==
    ToNewGeneration([state |-> "closed", generation |-> 0, counts |-> ZeroCounts,
                     expiry |-> NoExpiry], st, t)

\* gobreaker beforeRequest: the error, or "" and the request counted
BeforeRequestErr(b, st, t) ==
    LET c == CurrentState(b, st, t)
    IN IF c.state = "open" THEN "ErrOpenState"
       ELSE IF c.state = "half-open" /\ c.counts.Requests >= MaxRequestsOf(st)
            THEN "ErrTooManyRequests"
            ELSE ""

BeforeRequest(b, st, t) ==
    LET c == CurrentState(b, st, t)
    IN IF BeforeRequestErr(b, st, t) = "" THEN [c EXCEPT !.counts.Requests = @ + 1]
       ELSE c

\* gobreaker Counts.onSuccess / onFailure
CountsOnSuccess(n) ==
    [n EXCEPT !.TotalSuccesses = @ + 1, !.ConsecutiveSuccesses = @ + 1,
              !.ConsecutiveFailures = 0]
CountsOnFailure(n) ==
    [n EXCEPT !.TotalFailures = @ + 1, !.ConsecutiveFailures = @ + 1,
              !.ConsecutiveSuccesses = 0]

\* gobreaker onSuccess / onFailure
OnSuccess(c, st, t) ==
    CASE c.state = "closed" -> [c EXCEPT !.counts = CountsOnSuccess(@)]
      [] c.state = "half-open" ->
            LET d == [c EXCEPT !.counts = CountsOnSuccess(@)]
            IN IF d.counts.ConsecutiveSuccesses >= MaxRequestsOf(st)
               THEN SetState(d, st, "closed", t) ELSE d
      [] OTHER -> c

OnFailure(c, st, t) ==
    CASE c.state = "closed" ->
            LET d == [c EXCEPT !.counts = CountsOnFailure(@)]
            IN IF ReadyToTrip(d.counts, st.FailureRatio)
               THEN SetState(d, st, "open", t) ELSE d
      [] c.state = "half-open" -> SetState(c, st, "open", t)
      [] OTHER -> c

\* gobreaker afterRequest: a result of an older generation is dropped
AfterRequest(b, st, before, success, t) ==
    LET c == CurrentState(b, st, t)
    IN IF c.generation # before THEN c
       ELSE IF success THEN OnSuccess(c, st, t) ELSE OnFailure(c, st, t)

IdleCall == [pc |-> "idle", generation |-> 0, sawState |-> "", sawAt |-> 0,
             err |-> "", invoked |-> FALSE]
NoRec == [kind |-> "none", from |-> "", to |-> "", counts |-> ZeroCounts]

\* the time of the last trip, kept when the state moves to Open
Opened(b, c, t) == IF b.state # "open" /\ c.state = "open" THEN t ELSE openedAt

CbInit ==
    /\ cbSettings \in [Enabled : {TRUE}, Timeout : 1..MaxTimeout,
                       Interval : {0, MaxTimeout}, FailureRatio : Ratios]
    /\ cb = NewBreaker(Into(cbSettings), 0)
    /\ call = [c \in Callers |-> IdleCall]
    /\ lastRec = NoRec
    /\ openedAt = 0
    /\ ncalls = 0

\* CircuitBreaker.Execute, entry: cb.breaker.Execute(f) runs beforeRequest and,
\* when it returns no error, calls f
Execute_NoBreaker(c) ==
    /\ call[c].pc \in {"idle", "returned"}
    /\ ncalls < CbMaxCalls
    /\ ncalls' = ncalls + 1
    /\ call' = [call EXCEPT ![c] =
          [pc |-> "running", generation |-> cb.generation,
           sawState |-> cb.state, sawAt |-> now, err |-> "", invoked |-> TRUE]]
    /\ UNCHANGED <<cbSettings, cb, lastRec, openedAt>>
    /\ UNCHANGED <<now, nonCbVars>>
Execute(c) ==
    /\ call[c].pc \in {"idle", "returned"}
    /\ ncalls < CbMaxCalls
    /\ ncalls' = ncalls + 1
    /\ LET st == Into(cbSettings)
           err == BeforeRequestErr(cb, st, now)
           nb == BeforeRequest(cb, st, now)
       IN /\ cb' = nb
          /\ openedAt' = Opened(cb, nb, now)
          /\ call' = [call EXCEPT ![c] =
                [pc |-> IF err = "" THEN "running" ELSE "returned",
                 generation |-> nb.generation,
                 sawState |-> cb.state, sawAt |-> now,
                 err |-> err, invoked |-> err = ""]]
    /\ UNCHANGED <<cbSettings, lastRec>>
    /\ UNCHANGED <<now, nonCbVars>>

\* CircuitBreaker.Execute, exit: f returned (ok: no error), afterRequest runs
ExecuteReturn(c) ==
    /\ call[c].pc = "running"
    /\ \E ok \in BOOLEAN :
          LET st == Into(cbSettings)
              cur == CurrentState(cb, st, now)
              nb == AfterRequest(cb, st, call[c].generation, ok, now)
          IN /\ cb' = nb
             /\ openedAt' = Opened(cb, nb, now)
             /\ lastRec' =
                   IF cur.generation # call[c].generation
                   THEN [kind |-> "dropped", from |-> cur.state, to |-> nb.state,
                         counts |-> cur.counts]
                   ELSE [kind |-> IF ok THEN "success" ELSE "failure",
                         from |-> cur.state, to |-> nb.state,
                         counts |-> IF ok THEN CountsOnSuccess(cur.counts)
                                    ELSE CountsOnFailure(cur.counts)]
             /\ call' = [call EXCEPT ![c].pc = "returned",
                                     ![c].err = IF ok THEN "" ELSE "error"]
    /\ UNCHANGED <<cbSettings, ncalls>>
    /\ UNCHANGED <<now, nonCbVars>>

\* CircuitBreaker.IsOpen: cb.breaker.State() == gobreaker.StateOpen
IsOpen ==
    /\ cb' = CurrentState(cb, Into(cbSettings), now)
    /\ cb' # cb
    /\ openedAt' = Opened(cb, cb', now)
    /\ UNCHANGED <<cbSettings, call, lastRec, ncalls>>
    /\ UNCHANGED <<now, nonCbVars>>

\* time passes
CbTick ==
    /\ now < CbMaxTime
    /\ now' = now + 1
    /\ UNCHANGED cbVars
    /\ UNCHANGED nonCbVars

CbNext ==
    \/ \E c \in Callers : Execute(c)
    \/ \E c \in Callers : ExecuteReturn(c)
    \/ IsOpen
    \/ CbTick

(***************************************************************************)
(* REQUEST PIPELINE: pure parts of RequestHandler.HandleRequest.           *)
(***************************************************************************)
\* number of requests handled and the horizon of the gateway model, in seconds
MaxRequests == 2
GwMaxTime == 2

\* the *Service objects that are reachable at one time: the one the registry
\* holds for svc1 and the one the request being handled resolved
SvcIds == {1, 2}

RECURSIVE Join(_, _)
\* strings.Join(parts, sep)
Join(parts, sep) ==
    IF Len(parts) = 0 THEN ""
    ELSE IF Len(parts) = 1 THEN parts[1]
    ELSE parts[1] \o sep \o Join(Tail(parts), sep)

\* a URL path is kept as strings.Split(path, "/"): "/svc1/x" is <<"", "svc1", "x">>
PathOf(parts) == Join(parts, "/")

\* r.URL.String(): the path and, when non-empty, "?" and the raw query
UrlString(parts, query) ==
    IF query = "" THEN PathOf(parts) ELSE PathOf(parts) \o "?" \o query

\* resolvePath: the service name
ResolveName(parts) == IF Len(parts) < 2 THEN PathOf(parts) ELSE parts[2]

\* resolvePath: the route
ResolveRoute(parts) == IF Len(parts) < 2 THEN <<>> ELSE SubSeq(parts, 3, Len(parts))

\* an address is kept as its scheme prefix ("", "http://" or "https://") and
\* the rest; the empty address is NoAddress
NoAddress == [scheme |-> "", host |-> ""]
AddressString(address) == address.scheme \o address.host

\* createForwardURI
CreateForwardURI_NoSlash(address, route, query) ==
    LET base == IF address.scheme # "http://" /\ address.scheme # "https://"
                THEN "http://" \o AddressString(address)
                ELSE AddressString(address)
        forwardUri == IF route = <<>> THEN base ELSE base \o "/" \o Join(route, "/")
    IN IF query # "" THEN forwardUri \o "?" \o query ELSE forwardUri
CreateForwardURI(address, route, query) ==
    LET base == IF address.scheme # "http://" /\ address.scheme # "https://"
                THEN "http://" \o AddressString(address)
                ELSE AddressString(address)
        forwardUri == base \o "/" \o Join(route, "/")
    IN IF query # "" THEN forwardUri \o "?" \o query ELSE forwardUri

\* generateCacheKey
GenerateCacheKey(service, parts, query) ==
    "cache-" \o service \o "-" \o UrlString(parts, query)

\* sr.Services[name] of a name that may be no key of the map
Lookup_Any(name) ==
    IF name \in DOMAIN Services /\ Services[name] # Nil THEN Services[name]
    ELSE Services["svc1"]
Lookup(name) == IF name \in DOMAIN Services THEN Services[name] ELSE Nil

\* net.SplitHostPort(addr): fails on an address without a port
SplitOk(addr) == addr.port # ""

RECURSIVE PopulateRest(_)
PopulateIPWhiteList_AnyAll(ipList) ==
    IF \E i \in 1..Len(ipList) : ipList[i] = "ALL" THEN {"ALL"}
    ELSE {ipList[i] : i \in 1..Len(ipList)}
PopulateRest(ipList) ==
    IF Len(ipList) = 0 THEN {}
    ELSE (IF ipList[1] = "ALL" THEN {} ELSE {ipList[1]}) \cup PopulateRest(Tail(ipList))

\* PopulateIPWhiteList on a new IPWhiteList
PopulateIPWhiteList(ipList) ==
    IF Len(ipList) > 0 /\ ipList[1] = "ALL" THEN {"ALL"} ELSE PopulateRest(ipList)

\* IPWhiteList.Allowed
Allowed_Open(whitelist, ip) == TRUE
Allowed_ExactOnly(whitelist, ip) == ip \in whitelist
Allowed(whitelist, ip) ==
    IF "ALL" \in whitelist THEN TRUE
    ELSE ip \in whitelist

\* Service.IsWhitelisted: ok && err == nil
IsWhitelisted(whitelist, addr) == SplitOk(addr) /\ Allowed(whitelist, addr.ip)

\* tokens: none (""), or a JWT signed with `key` over claims with `exp`
\* (NoExp: no exp claim), or text that is no JWT
NoExp == 0 - 1
\* the claims of a JWT are `service`, `exp` and possibly one claim that the
\* Claims struct has no field for (extra; "" when absent)
NoToken == [kind |-> "none", key |-> "", service |-> "", exp |-> NoExp, extra |-> ""]
Garbage == [kind |-> "garbage", key |-> "", service |-> "", exp |-> NoExp,
            extra |-> ""]
JwtOver(key, service, exp, extra) ==
    [kind |-> "jwt", key |-> key, service |-> service, exp |-> exp, extra |-> extra]
Jwt(key, exp) == JwtOver(key, "test", exp, "")

\* the claims set a token was signed over
ClaimsOf(token) == [service |-> token.service, exp |-> token.exp, extra |-> token.extra]

\* the Claims struct jwt.ParseWithClaims fills from the token: Service and the
\* registered claims; a claim without a field is not kept
ParsedClaims(token) == [Service |-> token.service, ExpiresAt |-> token.exp]

\* jwt.ParseWithClaims with the key function returning the secret: an error for
\* a malformed token, a signature that does not verify, or an exp that is not
\* in the future
ParseFails(token, secret, t) ==
    \/ token.kind # "jwt"
    \/ token.key # secret
    \/ token.exp # NoExp /\ ~(t < token.exp)

\* json.Marshal(claims), the X-Claims value
ClaimsJson(token) ==
    [service |-> ParsedClaims(token).Service, exp |-> ParsedClaims(token).ExpiresAt,
     extra |-> ""]

\* JwtAuth.Authenticate: err is "nil", "ErrTokenMissing", "ErrInvalidToken" or
\* "panic"; add is the sequence of X-Claims values added to the request
AuthResult(err, add) == [err |-> err, add |-> add]

Authenticate_NoAnonymous(auth, parts, token, t) ==
    IF Len(parts) < 3 THEN AuthResult("panic", <<>>)
    ELSE IF ("/" \o parts[3]) \in auth.Routes /\ auth.Enabled
    THEN IF token.kind = "none" THEN AuthResult("ErrTokenMissing", <<>>)
         ELSE IF ParseFails(token, auth.secret, t) THEN AuthResult("ErrInvalidToken", <<>>)
         ELSE IF token.exp = NoExp THEN AuthResult("panic", <<>>)
         ELSE IF token.exp < t THEN AuthResult("ErrInvalidToken", <<>>)
         ELSE AuthResult("nil", <<ClaimsJson(token)>>)
    ELSE AuthResult("nil", <<>>)

Authenticate_NoCheck(auth, parts, token, t) ==
    IF Len(parts) < 3 THEN AuthResult("panic", <<>>)
    ELSE AuthResult("nil", <<>>)

Authenticate(auth, parts, token, t) ==
    \* strings.Split(r.URL.Path, "/")[2]: index out of range on a short path
    IF Len(parts) < 3 THEN AuthResult("panic", <<>>)
    ELSE IF ("/" \o parts[3]) \in auth.Routes /\ auth.Enabled
    THEN IF token.kind = "none"
         THEN IF auth.Anonymous THEN AuthResult("nil", <<>>)
              ELSE AuthResult("ErrTokenMissing", <<>>)
         ELSE IF ParseFails(token, auth.secret, t)
         THEN IF auth.Anonymous THEN AuthResult("nil", <<>>)
              ELSE AuthResult("ErrInvalidToken", <<>>)
         \* claims.ExpiresAt.Unix() on a nil ExpiresAt
         ELSE IF token.exp = NoExp THEN AuthResult("panic", <<>>)
         ELSE IF token.exp < t
         THEN IF auth.Anonymous THEN AuthResult("nil", <<>>)
              ELSE AuthResult("ErrInvalidToken", <<>>)
         ELSE AuthResult("nil", <<ClaimsJson(token)>>)
    ELSE AuthResult("nil", <<>>)

\* the switch on Authenticate's error in HandleRequest: the response body
AuthErrorBody(err) ==
    CASE err = "ErrTokenMissing" -> "token missing"
      [] err = "ErrInvalidToken" -> "invalid token"
      [] OTHER -> "auth failed"

\* go-cache Get: the item, unless absent or past its expiration
CacheHit_NoExpiry(store, key, t) == key \in DOMAIN store
CacheHit(store, key, t) == key \in DOMAIN store /\ ~(t > store[key].expiry)

\* go-cache Set with the default expiration
CacheSet(store, key, value, ttl, t) ==
    [k \in DOMAIN store \cup {key} |->
        IF k = key THEN [value |-> value, expiry |-> t + ttl] ELSE store[k]]

\* GetVisitor then Allow on a visitors map: whether admitted
VisitorOf(vis, key, burst, t) ==
    IF key \in DOMAIN vis THEN vis[key] ELSE NewVisitor(burst, t)

LimiterAllows(vis, key, rl, t) ==
    AllowOk(VisitorOf(vis, key, rl.Burst, t), rl.Rate, rl.Burst, t)

\* GetVisitor then Allow on a visitors map: the map afterwards
LimiterTake(vis, key, rl, t) ==
    [k \in DOMAIN vis \cup {key} |->
        IF k = key
        THEN AllowTake(VisitorOf(vis, key, rl.Burst, t), rl.Rate, rl.Burst, t)
        ELSE vis[k]]

(***************************************************************************)
(* REQUEST PIPELINE: state.                                                *)
(***************************************************************************)
Upstream == [scheme |-> "http://", host |-> "up"]
Fallback == [scheme |-> "http://", host |-> "fb"]

AuthOff == [Enabled |-> FALSE, Anonymous |-> FALSE, Routes |-> {"/private"},
            secret |-> "s1"]
CacheOff == [Enabled |-> FALSE, ExpirationInterval |-> 1]
BreakerOff == [Enabled |-> FALSE, Timeout |-> 1, Interval |-> 0, FailureRatio |-> 0]
LimiterOff == [Enabled |-> FALSE, Rate |-> 0, Burst |-> 1]

\* a service as configured: an open allow-list and every policy disabled
BaseConf ==
    [Addr |-> Upstream, FallbackUri |-> NoAddress, WhiteList |-> <<"ALL">>,
     Auth |-> AuthOff, Cache |-> CacheOff, CircuitBreaker |-> BreakerOff,
     RateLimiter |-> LimiterOff]

\* configurations of the allow-list and the per-service limiter
WhitelistConfs ==
    {[BaseConf EXCEPT !.WhiteList = wl, !.RateLimiter.Enabled = rl] :
        wl \in {<<>>, <<"10.0.0.1">>, <<"10.0.0.1", "ALL">>}, rl \in BOOLEAN}

\* configurations of authentication
AuthConfs ==
    {[BaseConf EXCEPT !.Auth.Enabled = e, !.Auth.Anonymous = a] :
        e \in BOOLEAN, a \in BOOLEAN}

\* configurations of cache, breaker and fallback
ForwardConfs ==
    {[BaseConf EXCEPT !.Cache.Enabled = c, !.CircuitBreaker.Enabled = b,
                      !.FallbackUri = f] :
        c \in BOOLEAN, b \in BOOLEAN, f \in {NoAddress, Fallback}}

\* a registered service without an address
NoAddrConfs == {[BaseConf EXCEPT !.Addr = NoAddress]}

\* the configurations the global limiter is enabled with
GlobalLimiterConfs == {BaseConf, [BaseConf EXCEPT !.WhiteList = <<"10.0.0.1">>]}

\* a cache behind a closed allow-list and authentication, and a cache behind
\* the per-service limiter
GuardedCacheConfs ==
    {[BaseConf EXCEPT !.Cache.Enabled = TRUE, !.WhiteList = <<"10.0.0.1">>,
                      !.Auth.Enabled = TRUE],
     [BaseConf EXCEPT !.Cache.Enabled = TRUE, !.RateLimiter.Enabled = TRUE]}

Confs == WhitelistConfs \cup AuthConfs \cup ForwardConfs \cup NoAddrConfs
         \cup GuardedCacheConfs

NoConf == [BaseConf EXCEPT !.Addr = NoAddress, !.WhiteList = <<>>]

\* the empty map
EmptyMap == [k \in {} |-> 0]

\* r.RemoteAddr; BadAddr has no port
Addr1 == [ip |-> "10.0.0.1", port |-> "1000"]
Addr2 == [ip |-> "10.0.0.2", port |-> "1000"]
BadAddr == [ip |-> "10.0.0.1", port |-> ""]

\* tokens: valid until GwMaxTime + 1, expired at 0, signed with another key, no
\* exp claim
ValidToken == Jwt("s1", GwMaxTime + 1)
ExpiredToken == Jwt("s1", 0)
BadSigToken == Jwt("s2", GwMaxTime + 1)
NoExpToken == Jwt("s1", NoExp)
\* valid tokens over other claims: another service, and a claim `role`
OtherServiceToken == JwtOver("s1", "other", GwMaxTime + 1, "")
RoleToken == JwtOver("s1", "test", GwMaxTime + 1, "role=admin")
Tokens == {NoToken, Garbage, ValidToken, ExpiredToken, BadSigToken, NoExpToken,
           OtherServiceToken, RoleToken}

Paths == {<<"">>, <<"", "svc1">>, <<"", "svc1", "">>, <<"", "svc1", "private">>,
          <<"", "svc2", "private">>}

Input(addr, parts, query, token, xclaims) ==
    [addr |-> addr, parts |-> parts, query |-> query, token |-> token,
     xclaims |-> xclaims]

BasePath == <<"", "svc1", "private">>

\* the requests received: from 10.0.0.1, without a token, to every path and
\* with and without a query; to a service whose allow-list or limiter is
\* configured, also from every address; to a service whose authentication is
\* configured, also with every token and with an X-Claims header of the client's
PathInputs ==
    {Input(Addr1, p, "", NoToken, <<>>) : p \in Paths}
    \cup {Input(Addr1, BasePath, "q=1", NoToken, <<>>)}
AddrInputs == {Input(a, BasePath, "", NoToken, <<>>) : a \in {Addr1, Addr2, BadAddr}}
TokenInputs ==
    {Input(Addr1, p, "", tk, <<>>) : p \in {BasePath, <<"", "svc1", "">>, <<"", "svc1">>},
                                      tk \in Tokens}
    \cup {Input(Addr1, BasePath, "", ValidToken, <<"forged">>)}
Inputs == PathInputs \cup AddrInputs \cup TokenInputs
\* to a service with a guarded cache: one URL, from a listed and an unlisted
\* address, without a token, with a valid one and with a badly signed one
GuardedInputs ==
    {Input(a, BasePath, "", NoToken, <<>>) : a \in {Addr1, Addr2}}
    \cup {Input(Addr1, BasePath, "", tk, <<>>) : tk \in {ValidToken, BadSigToken}}
InputsFor(c) ==
    IF c \in GuardedCacheConfs THEN GuardedInputs
    ELSE PathInputs
         \cup (IF c \in WhitelistConfs THEN AddrInputs ELSE {})
         \cup (IF c \in AuthConfs THEN TokenInputs ELSE {})

\* what an upstream does with a call: a response with a status and a body, a
\* transport error, or a response whose body fails to read
Outcomes ==
    {[kind |-> "ok", status |-> 200, body |-> "A"],
     [kind |-> "ok", status |-> 503, body |-> "B"],
     [kind |-> "connerr", status |-> 0, body |-> ""],
          [kind |-> "readerr", status |-> 200, body |-> ""]}

IdleReq ==
    [pc |-> "idle", in |-> Input(Addr1, <<>>, "", NoToken, <<>>),
     name |-> "", svc |-> Nil, xclaims |-> <<>>,
     status |-> 0, body |-> "", stage |-> "", authErr |-> "",
     viaCB |-> FALSE, generation |-> 0, cbErr |-> "", fallbackUri |-> NoAddress,
     upstream |-> <<>>, upstreamXClaims |-> <<>>, upstreamStatus |-> 0,
     upstreamBody |-> "",
     cachedIn |-> Nil, metrics |-> <<>>]

NoPrev == [svc |-> Nil, key |-> "", status |-> 0, body |-> "", at |-> 0,
           viaCB |-> FALSE]

\* http.ResponseWriter.WriteHeader: the first status written is the response's
WriteHeader(r, code) == IF r.status = 0 THEN [r EXCEPT !.status = code] ELSE r

\* http.ResponseWriter.Write: an implicit 200 when no status was written
Write(r, bytes) == [WriteHeader(r, 200) EXCEPT !.body = @ \o bytes]

\* http.Error: the status and the message as one line
HttpError(r, msg, code) == Write(WriteHeader(r, code), msg \o "\n")

\* GetStatusCode: string(rune(statusCode)), the string of the one code point
\* statusCode (a label is written as the sequence of its code points)
GetStatusCode(statusCode) == <<statusCode>>

\* RequestHandler.CollectMetrics: one sample, its Code label GetStatusCode(code)
CollectMetrics(r, code) == [r EXCEPT !.metrics = Append(@, GetStatusCode(code))]

\* a terminal rejection of HandleRequest: http.Error, one sample, return
Reject(r, stage, msg, code) ==
    [CollectMetrics(HttpError(r, msg, code), code) EXCEPT !.pc = "done", !.stage = stage]

GwInit ==
    /\ now = 0
    /\ \E c \in Confs, g \in BOOLEAN :
          /\ g => c \in GlobalLimiterConfs
          /\ bootConf = c
          /\ svcConf = [i \in SvcIds |-> IF i = 1 THEN c ELSE NoConf]
          /\ svcBreaker = [i \in SvcIds |-> NewBreaker(Into(svcConf[i].CircuitBreaker), 0)]
          /\ glLimiter = [Enabled |-> g, Rate |-> 0, Burst |-> 1]
    /\ svcCache = [i \in SvcIds |-> EmptyMap]
    /\ svcVisitors = [i \in SvcIds |-> EmptyMap]
    /\ svcWhitelist = [i \in SvcIds |-> PopulateIPWhiteList(svcConf[i].WhiteList)]
    /\ glVisitors = EmptyMap
    /\ Services = [n \in Names |-> IF n = "svc1" THEN 1 ELSE Nil]
    /\ req = IdleReq
    /\ prev = NoPrev
    /\ nreq = 0

(***************************************************************************)
(* REQUEST PIPELINE: RateLimiterMiddleware and RequestHandler.HandleRequest *)
(* up to the forward.                                                      *)
(***************************************************************************)
\* r.RemoteAddr as the string
RemoteAddrString(addr) == IF addr.port = "" THEN addr.ip ELSE HostPort(addr)

MiddlewareAllows_Always(in) == TRUE
\* RateLimiterMiddleware: whether the request is passed to HandleRequest
MiddlewareAllows(in) ==
    glLimiter.Enabled =>
        LimiterAllows(glVisitors, RemoteAddrString(in.addr), glLimiter, now)

RateLimitIP_Always(sv, addr) == TRUE
\* Service.RateLimitIP: SplitHostPort, then GetVisitor(ip).Limiter.Allow()
RateLimitIP(sv, addr) ==
    SplitOk(addr) /\ LimiterAllows(svcVisitors[sv], addr.ip, svcConf[sv].RateLimiter, now)

\* the stages of HandleRequest after the service was resolved to sv, the
\* per-service limiter has admitted the request: allow-list, authentication,
\* address, cache probe
AfterRateLimit_AuthFirst(r, sv) ==
    LET conf == svcConf[sv]
        in == r.in
        a == Authenticate(conf.Auth, in.parts, in.token, now)
        key == GenerateCacheKey(r.name, in.parts, in.query)
    IN IF a.err = "panic"
       THEN [r EXCEPT !.pc = "done", !.stage = "auth", !.authErr = "panic"]
       ELSE IF a.err # "nil"
       THEN [Reject(r, "auth", AuthErrorBody(a.err), 401) EXCEPT !.authErr = a.err]
       ELSE LET ra == [r EXCEPT !.authErr = "nil", !.xclaims = @ \o a.add]
            IN IF ~IsWhitelisted(svcWhitelist[sv], in.addr)
               THEN Reject(ra, "whitelist", "unauthorized", 401)
               ELSE IF conf.Addr = NoAddress
               THEN Reject(ra, "addr", "service not found", 404)
               ELSE IF conf.Cache.Enabled /\ CacheHit(svcCache[sv], key, now)
               THEN [CollectMetrics(Write(WriteHeader(ra, 200),
                                          svcCache[sv][key].value), 200)
                        EXCEPT !.pc = "done", !.stage = "cache"]
               ELSE [ra EXCEPT !.pc = "forward", !.stage = "forward"]
AfterRateLimit(r, sv) ==
    LET conf == svcConf[sv]
        in == r.in
        a == Authenticate(conf.Auth, in.parts, in.token, now)
        key == GenerateCacheKey(r.name, in.parts, in.query)
    IN IF ~IsWhitelisted(svcWhitelist[sv], in.addr)
       THEN Reject(r, "whitelist", "unauthorized", 401)
       ELSE IF a.err = "panic"
       \* the handler goroutine panics: net/http recovers it and closes the
       \* connection without a response
       THEN [r EXCEPT !.pc = "done", !.stage = "auth", !.authErr = "panic"]
       ELSE IF a.err # "nil"
       THEN [Reject(r, "auth", AuthErrorBody(a.err), 401) EXCEPT !.authErr = a.err]
       ELSE LET ra == [r EXCEPT !.authErr = "nil", !.xclaims = @ \o a.add]
            IN IF conf.Addr = NoAddress
               THEN Reject(ra, "addr", "service not found", 404)
               ELSE IF conf.Cache.Enabled /\ CacheHit(svcCache[sv], key, now)
               THEN [CollectMetrics(Write(WriteHeader(ra, 200),
                                          svcCache[sv][key].value), 200)
                        EXCEPT !.pc = "done", !.stage = "cache"]
               ELSE [ra EXCEPT !.pc = "forward", !.stage = "forward"]

\* a request arrives: the middleware, then HandleRequest up to the choice of
\* the forward path
HandleRequest(in) ==
    /\ in \in InputsFor(bootConf)
    /\ req.pc = "idle"
    /\ nreq < MaxRequests
    /\ nreq' = nreq + 1
    /\ LET name == ResolveName(in.parts)
           sv == Lookup(name)
           r == [IdleReq EXCEPT !.in = in, !.xclaims = in.xclaims, !.name = name,
                                !.svc = sv]
       IN /\ glVisitors' =
                IF glLimiter.Enabled
                THEN LimiterTake(glVisitors, RemoteAddrString(in.addr), glLimiter, now)
                ELSE glVisitors
          /\ IF ~MiddlewareAllows(in)
             THEN /\ req' = [HttpError(r, "Too Many Requests", 429)
                               EXCEPT !.pc = "done", !.stage = "middleware"]
                  /\ UNCHANGED svcVisitors
             ELSE IF sv = Nil
             THEN /\ req' = [HttpError(r, "Bad Request", 400)
                               EXCEPT !.pc = "done", !.stage = "resolve"]
                  /\ UNCHANGED svcVisitors
             ELSE IF svcConf[sv].RateLimiter.Enabled
             THEN /\ svcVisitors' =
                        IF SplitOk(in.addr)
                        THEN [svcVisitors EXCEPT ![sv] =
                                LimiterTake(@, in.addr.ip, svcConf[sv].RateLimiter, now)]
                        ELSE svcVisitors
                  /\ req' = IF ~RateLimitIP(sv, in.addr)
                            THEN Reject(r, "ratelimit", "Too Many Requests", 429)
                            ELSE AfterRateLimit(r, sv)
             ELSE /\ req' = AfterRateLimit(r, sv)
                  /\ UNCHANGED svcVisitors
    /\ UNCHANGED <<svcConf, svcWhitelist, svcBreaker, svcCache, bootConf, glLimiter, prev>>
    /\ UNCHANGED <<Services, now, nonGwVars>>

(***************************************************************************)
(* REQUEST PIPELINE: forwardRequestCB, forwardRequest, handleFallbackRequest. *)
(***************************************************************************)
\* the tail of HandleRequest on a forward error: 500 and one sample
ServiceIsDown(r) ==
    [CollectMetrics(HttpError(r, "service is down", 500), 500)
        EXCEPT !.pc = "done", !.stage = "down"]

\* ServiceRegistry.GetFallbackUri
GetFallbackUri(name) ==
    IF Lookup(name) = Nil THEN NoAddress ELSE svcConf[Lookup(name)].FallbackUri

\* the client.Do of forwardRequest or executeRequest is issued: the call to
\* `target` carries the request's headers
CallUpstream(r, target) ==
    [r EXCEPT !.pc = target, !.upstream = Append(@, target),
              !.upstreamXClaims = r.xclaims]

\* handleFallbackRequest up to the client.Do of forwardRequest
HandleFallbackRequest_Primary(r) == CallUpstream(r, "primary")
HandleFallbackRequest(r) ==
    IF GetFallbackUri(r.name) = NoAddress
    THEN [CollectMetrics(HttpError(r, "fallback uri not found", 404), 404)
            EXCEPT !.pc = "done", !.stage = "nofallback"]
    ELSE [CallUpstream(r, "fallback") EXCEPT !.fallbackUri = GetFallbackUri(r.name)]

\* the settings of the breaker of *Service sv
BreakerSettings(sv) == Into(svcConf[sv].CircuitBreaker)

\* HandleRequest from circuitBreakerEnabled to the call of the upstream:
\* circuitBreakerEnabled looks the service up again and dereferences the result;
\* forwardRequestCB runs cb.Execute on the breaker of the *Service resolved at
\* the start of the request
Forward ==
    /\ req.pc = "forward"
    /\ LET cur == Lookup(req.name)
           st == BreakerSettings(req.svc)
           b == svcBreaker[req.svc]
           err == BeforeRequestErr(b, st, now)
           nb == BeforeRequest(b, st, now)
       IN IF cur = Nil
          \* nil pointer dereference: the handler goroutine panics
          THEN /\ req' = [req EXCEPT !.pc = "done", !.stage = "panic"]
               /\ UNCHANGED svcBreaker
          ELSE IF svcConf[cur].CircuitBreaker.Enabled
          THEN /\ svcBreaker' = [svcBreaker EXCEPT ![req.svc] = nb]
               /\ req' =
                    LET r == [req EXCEPT !.viaCB = TRUE, !.cbErr = err,
                                         !.generation = nb.generation]
                    IN IF err = "" THEN CallUpstream(r, "primary")
                       \* cb.IsOpen() || errors.Is(err, gobreaker.ErrOpenState)
                       ELSE IF nb.state = "open" \/ err = "ErrOpenState"
                       THEN HandleFallbackRequest(r)
                       ELSE ServiceIsDown(r)
          ELSE /\ req' = CallUpstream(req, "primary")
               /\ UNCHANGED svcBreaker
    /\ UNCHANGED <<svcConf, svcWhitelist, svcCache, svcVisitors, bootConf, glLimiter, glVisitors, prev, nreq>>
    /\ UNCHANGED <<Services, now, nonGwVars>>

\* what io.ReadAll(resp.Body) returns once `read` bytes of the body were read
ReadAll(body, read) == IF read = body THEN "" ELSE body

\* ServiceRegistry.SetCache: false when the service is not registered
SetCacheOk(name) == Lookup(name) # Nil

\* the cache stores after ServiceRegistry.SetCache(name, key, val)
SetCache(name, key, val) ==
    IF Lookup(name) = Nil THEN svcCache
    ELSE [svcCache EXCEPT ![Lookup(name)] =
            CacheSet(@, key, val, svcConf[Lookup(name)].Cache.ExpirationInterval, now)]

\* the request after the SetCache and the metrics of a forward that wrote the
\* response, with `code` the status passed to GetStatusCode
Populate(r, code) ==
    IF SetCacheOk(r.name)
    THEN [CollectMetrics(r, code) EXCEPT !.pc = "done", !.stage = "forwarded",
                                         !.cachedIn = Lookup(r.name)]
    ELSE ServiceIsDown(r)

\* forwardRequest after client.Do returned outcome o: the request
ForwardRequest(r, o) ==
    CASE o.kind = "connerr" -> ServiceIsDown(CollectMetrics(r, 500))
      \* io.Copy returns the read error
      [] o.kind = "readerr" -> ServiceIsDown(WriteHeader(r, o.status))
      [] OTHER ->
            Populate([Write(WriteHeader(r, o.status), o.body)
                        EXCEPT !.upstreamBody = o.body, !.upstreamStatus = o.status], o.status)

\* forwardRequest after client.Do returned outcome o: the cache stores; the
\* value is read from the body io.Copy has already read to its end
ForwardRequestCache(r, o) ==
    IF o.kind = "ok"
    THEN SetCache(r.name, GenerateCacheKey(r.name, r.in.parts, r.in.query),
                  ReadAll(o.body, o.body))
    ELSE svcCache

\* forwardRequestCB after executeRequest returned, the breaker being nb after
\* afterRequest and IsOpen
ForwardRequestCB(r, o, nb) ==
    CASE o.kind = "ok" ->
            Populate([Write(WriteHeader(r, o.status), ReadAll(o.body, ""))
                        EXCEPT !.upstreamBody = o.body, !.upstreamStatus = o.status], 200)
      [] OTHER ->
            LET rw == IF o.kind = "readerr" THEN WriteHeader(r, o.status) ELSE r
            IN IF nb.state = "open" THEN HandleFallbackRequest(rw)
               ELSE ServiceIsDown(rw)

ForwardRequestCBCache(r, o) ==
    IF o.kind = "ok"
    THEN SetCache(r.name, GenerateCacheKey(r.name, r.in.parts, r.in.query),
                  ReadAll(o.body, ""))
    ELSE svcCache

ExecuteRequestOk_Below500(o) == o.kind = "ok" /\ o.status < 500
\* executeRequest returns a nil error: client.Do and io.ReadAll succeeded,
\* whatever the status of the response
ExecuteRequestOk(o) == o.kind = "ok"

\* the primary upstream answers (or fails): the rest of forwardRequestCB or
\* forwardRequest and of HandleRequest
PrimaryResponse(o) ==
    /\ req.pc = "primary"
    /\ IF req.viaCB
       THEN LET st == BreakerSettings(req.svc)
                after == AfterRequest(svcBreaker[req.svc], st, req.generation,
                                      ExecuteRequestOk(o), now)
                \* on an error cb.IsOpen() looks at the breaker once more
                nb == IF o.kind = "ok" THEN after ELSE CurrentState(after, st, now)
            IN /\ svcBreaker' = [svcBreaker EXCEPT ![req.svc] = nb]
               /\ req' = ForwardRequestCB(req, o, nb)
               /\ svcCache' = ForwardRequestCBCache(req, o)
       ELSE /\ req' = ForwardRequest(req, o)
            /\ svcCache' = ForwardRequestCache(req, o)
            /\ UNCHANGED svcBreaker
    /\ UNCHANGED <<svcConf, svcWhitelist, svcVisitors, bootConf, glLimiter, glVisitors, prev, nreq>>
    /\ UNCHANGED <<Services, now, nonGwVars>>

\* the fallback upstream answers (or fails): the rest of forwardRequest and of
\* HandleRequest
FallbackResponse(o) ==
    /\ req.pc = "fallback"
    /\ req' = ForwardRequest(req, o)
    /\ svcCache' = ForwardRequestCache(req, o)
    /\ UNCHANGED <<svcConf, svcWhitelist, svcBreaker, svcVisitors, bootConf, glLimiter, glVisitors, prev, nreq>>
    /\ UNCHANGED <<Services, now, nonGwVars>>

\* the *Service objects reachable from the registry S and the request r
Live(S, r) == ({S[n] : n \in Names} \cup {r.svc}) \ {Nil}

\* the per-object state f once the objects unreachable from S and r are
\* collected
Collect(f, empty, S, r) == [i \in SvcIds |-> IF i \in Live(S, r) THEN f[i] ELSE empty]

CollectAll(conf, breaker, store, vis, S, r) ==
    /\ svcConf' = Collect(conf, NoConf, S, r)
    /\ svcBreaker' = Collect(breaker, NewBreaker(Into(NoConf.CircuitBreaker), 0), S, r)
    /\ svcCache' = Collect(store, EmptyMap, S, r)
    /\ svcVisitors' = Collect(vis, EmptyMap, S, r)

\* the response is written and the handler has returned; the next request is
\* the one that immediately follows it. The control plane and the clock do not
\* look at a completed request, so they take their steps after this one.
Respond ==
    /\ req.pc = "done"
    /\ prev' = IF req.cachedIn \in Live(Services, IdleReq)
                  /\ svcConf[req.cachedIn].Cache.Enabled
               THEN [svc |-> req.cachedIn,
                     key |-> GenerateCacheKey(req.name, req.in.parts, req.in.query),
                     status |-> req.upstreamStatus, body |-> req.upstreamBody,
                     at |-> now, viaCB |-> req.viaCB]
               ELSE NoPrev
    /\ req' = IdleReq
    /\ CollectAll(svcConf, svcBreaker, svcCache, svcVisitors, Services, IdleReq)
    /\ svcWhitelist' = Collect(svcWhitelist, {}, Services, IdleReq)
    /\ UNCHANGED <<bootConf, glLimiter, glVisitors, nreq>>
    /\ UNCHANGED <<Services, now, nonGwVars>>

(***************************************************************************)
(* REQUEST PIPELINE: the control plane and the clock.                      *)
(***************************************************************************)
\* the bodies posted to /services/register and /services/update: the
\* configurations of the family svc1 was booted with
Resubmitted == {bootConf}

\* the bodies posted to /services/update: for a service booted with an
\* allow-list and no limiter, the same service with any of the allow-lists
Reposted ==
    IF bootConf \in WhitelistConfs /\ ~bootConf.RateLimiter.Enabled
    THEN {c \in WhitelistConfs : ~c.RateLimiter.Enabled}
    ELSE {bootConf}

\* the allow-list of the new *Service: NewIPWhiteList, PopulateIPWhiteList
NewWhitelist_Merge(existing, ipList) == existing \cup PopulateIPWhiteList(ipList)
NewWhitelist(existing, ipList) == PopulateIPWhiteList(ipList)

\* the place of a new *Service: not the one the request in flight holds
NewId == CHOOSE i \in SvcIds : i # req.svc /\ \A j \in SvcIds : j # req.svc => i <= j

StoreNew_KeepPolicy(c) ==
    LET i == NewId
        o == IF Services["svc1"] = Nil THEN i ELSE Services["svc1"]
        S == [Services EXCEPT !["svc1"] = i]
    IN /\ Services' = S
       /\ CollectAll([svcConf EXCEPT ![i] = c],
                     [svcBreaker EXCEPT ![i] = svcBreaker[o]],
                     [svcCache EXCEPT ![i] = svcCache[o]],
                     [svcVisitors EXCEPT ![i] = svcVisitors[o]], S, req)
       /\ svcWhitelist' =
            Collect([svcWhitelist EXCEPT ![i] = PopulateIPWhiteList(c.WhiteList)],
                    {}, S, req)
       /\ prev' = IF prev.svc \in Live(S, req) \ {i} THEN prev ELSE NoPrev
\* &Service{...} stored under svc1: a new object with new policy state
StoreNew(c) ==
    LET i == NewId
        S == [Services EXCEPT !["svc1"] = i]
    IN /\ Services' = S
       /\ CollectAll([svcConf EXCEPT ![i] = c],
                     [svcBreaker EXCEPT ![i] = NewBreaker(Into(c.CircuitBreaker), now)],
                     [svcCache EXCEPT ![i] = EmptyMap],
                     [svcVisitors EXCEPT ![i] = EmptyMap], S, req)
       /\ svcWhitelist' =
            LET existing == IF Services["svc1"] = Nil THEN {}
                            ELSE svcWhitelist[Services["svc1"]]
            IN Collect([svcWhitelist EXCEPT ![i] = NewWhitelist(existing, c.WhiteList)],
                       {}, S, req)
       /\ prev' = IF prev.svc \in Live(S, req) \ {i} THEN prev ELSE NoPrev

\* ServiceRegistry.RegisterService of svc1: the entry is replaced when present
RegisterService(c) ==
    /\ c \in Resubmitted
    /\ req.pc # "done"
    /\ StoreNew(c)
    /\ UNCHANGED <<bootConf, glLimiter, glVisitors, req, nreq>>
    /\ UNCHANGED <<now, nonGwVars>>

\* ServiceRegistry.UpdateService of svc1: 400 when GetService returns nil,
\* else a new *Service is built and stored by Update
UpdateService(c) ==
    /\ c \in Reposted
    /\ req.pc # "done"
    /\ Services["svc1"] # Nil
    /\ UpdateFound("svc1")
    /\ StoreNew(c)
    /\ UNCHANGED <<bootConf, glLimiter, glVisitors, req, nreq>>
    /\ UNCHANGED <<now, nonGwVars>>

\* ServiceRegistry.DeregisterService
DeregisterService(name) ==
    /\ req.pc # "done"
    /\ Services[name] # Nil
    /\ LET S == [Services EXCEPT ![name] = Nil]
       IN /\ Services' = S
          /\ CollectAll(svcConf, svcBreaker, svcCache, svcVisitors, S, req)
          /\ svcWhitelist' = Collect(svcWhitelist, {}, S, req)
          /\ prev' = IF prev.svc \in Live(S, req) THEN prev ELSE NoPrev
    /\ UNCHANGED <<bootConf, glLimiter, glVisitors, req, nreq>>
    /\ UNCHANGED <<now, nonGwVars>>

\* time passes
GwTick ==
    /\ req.pc # "done"
    /\ now < GwMaxTime
    /\ now' = now + 1
    /\ UNCHANGED gwVars
    /\ UNCHANGED <<Services, nonGwVars>>

Next ==
    \/ \E in \in Inputs : HandleRequest(in)
    \/ Forward
    \/ \E o \in Outcomes : PrimaryResponse(o)
    \/ \E o \in Outcomes : FallbackResponse(o)
    \/ Respond
    \/ \E c \in Confs : RegisterService(c)
    \/ \E c \in Confs : UpdateService(c)
    \/ \E n \in Names : DeregisterService(n)
    \/ GwTick

(***************************************************************************)
(* FORWARD URI: resolvePath and createForwardURI on every address, path    *)
(* and query.                                                              *)
(***************************************************************************)
MaxSegments == 2
Segments == {"", "a", "b"}
RECURSIVE RoutesUpTo(_)
RoutesUpTo(n) ==
    IF n = 0 THEN {<<>>}
    ELSE LET shorter == RoutesUpTo(n - 1)
         IN shorter \cup {Append(r, x) : r \in {y \in shorter : Len(y) = n - 1},
                                         x \in Segments}

\* strings.Split(path, "/") of the paths "", "x", and "/" followed by a
\* service name and up to MaxSegments more segments
SplitPaths ==
    {<<"">>, <<"x">>}
    \cup {<<"", n>> \o r : n \in {"", "svc1", "svc2"}, r \in RoutesUpTo(MaxSegments)}

Addresses ==
    {[scheme |-> sc, host |-> h] : sc \in {"", "http://", "https://"},
                                   h \in {"up", "up:80"}}
RawQueries == {"", "q=1"}

NoForward ==
    [address |-> NoAddress, parts |-> <<"">>, query |-> "", serviceName |-> "",
     route |-> <<>>, forwardUri |-> "", called |-> FALSE]

ForwardInit == forward = NoForward

\* serviceName, route := rh.resolvePath(path);
\* forwardUri := rh.createForwardURI(address, route, query)
CreateForward(address, parts, query) ==
    /\ forward' = [address |-> address, parts |-> parts, query |-> query,
                   serviceName |-> ResolveName(parts),
                   route |-> ResolveRoute(parts),
                   forwardUri |-> CreateForwardURI(address, ResolveRoute(parts), query),
                   called |-> TRUE]
    /\ UNCHANGED <<cache, jwtAuth, sweepers>>
    /\ UNCHANGED nonUnitVars

ForwardNext ==
    \E address \in Addresses, parts \in SplitPaths, query \in RawQueries :
        CreateForward(address, parts, query)

(***************************************************************************)
(* CACHE: one CacheHandler under Set and Get, with the clock and the       *)
(* janitor of go-cache.                                                    *)
(***************************************************************************)
CacheMaxTime == 3
CacheKeys == {"k1", "k2"}
CacheValues == {"A", "B"}
NilValue == "nil"
NoSet == [value |-> NilValue, at |-> 0, set |-> FALSE]
NoGet == [key |-> "", value |-> NilValue, found |-> FALSE, asked |-> FALSE,
          lastSet |-> NoSet, at |-> 0]

\* NewCacheHandler(&config.CacheSettings{ExpirationInterval: 1}): an empty
\* store whose default expiration is 1 s
NewCacheHandler ==
    [ExpirationInterval |-> 1, store |-> EmptyMap,
     lastSet |-> [k \in CacheKeys |-> NoSet], get |-> NoGet]

CacheInit == cache = NewCacheHandler

\* CacheHandler.Set(key, value, DefaultExpiration)
CacheSetCall(key, value) ==
    /\ cache' = [cache EXCEPT
                    !.store = CacheSet(@, key, value, cache.ExpirationInterval, now),
                    !.lastSet[key] = [value |-> value, at |-> now, set |-> TRUE]]
    /\ UNCHANGED <<forward, jwtAuth, sweepers>>
    /\ UNCHANGED nonUnitVars

\* CacheHandler.Get(key)
CacheGetCall(key) ==
    /\ cache' = [cache EXCEPT !.get =
                    [key |-> key,
                     value |-> IF CacheHit(cache.store, key, now)
                               THEN cache.store[key].value ELSE NilValue,
                     found |-> CacheHit(cache.store, key, now),
                     asked |-> TRUE, lastSet |-> cache.lastSet[key], at |-> now]]
    /\ UNCHANGED <<forward, jwtAuth, sweepers>>
    /\ UNCHANGED nonUnitVars

\* the janitor of go-cache: DeleteExpired
DeleteExpired ==
    /\ cache' = [cache EXCEPT !.store =
                    [k \in {x \in DOMAIN cache.store : ~(now > cache.store[x].expiry)}
                        |-> cache.store[k]]]
    /\ UNCHANGED <<forward, jwtAuth, sweepers>>
    /\ UNCHANGED nonUnitVars

CacheTick ==
    /\ now < CacheMaxTime
    /\ now' = now + 1
    /\ UNCHANGED <<regVars, limVars, cbVars, gwVars, wlVars, ctlVars, unitVars>>

CacheNext ==
    \/ \E key \in CacheKeys, value \in CacheValues : CacheSetCall(key, value)
    \/ \E key \in CacheKeys : CacheGetCall(key)
    \/ DeleteExpired
    \/ CacheTick

(***************************************************************************)
(* AUTH: NewJwtAuth on every settings value and reader.                    *)
(***************************************************************************)
DefaultSecret == "test"

\* the settings: Enabled, Anonymous, Routes (Secret is the path of the file)
AuthSettings ==
    {[Enabled |-> e, Anonymous |-> a, Routes |-> r] :
        e \in BOOLEAN, a \in BOOLEAN, r \in SUBSET {"/private", "/x"}}

\* the reader: the bytes it yields before it ends (err = FALSE) or fails
\* (err = TRUE; the nil *os.File of a failed os.Open fails at once)
Readers ==
    {[data |-> d, err |-> e] : d \in {"", "s1", "s2", "test"}, e \in BOOLEAN}

NoJwtAuth ==
    [conf |-> [Enabled |-> FALSE, Anonymous |-> FALSE, Routes |-> {}],
     reader |-> [data |-> "", err |-> FALSE],
     Enabled |-> FALSE, Anonymous |-> FALSE, Routes |-> {}, secret |-> "",
     made |-> FALSE]

JwtInit == jwtAuth = NoJwtAuth

\* NewJwtAuth: the fields of the settings, and as secret what io.ReadAll
\* returned, or DefaultSecret when it returned an error
NewJwtAuth_KeepRead(conf, reader) ==
    [Enabled |-> conf.Enabled, Anonymous |-> conf.Anonymous, Routes |-> conf.Routes,
     secret |-> reader.data]
NewJwtAuth(conf, reader) ==
    [Enabled |-> conf.Enabled, Anonymous |-> conf.Anonymous, Routes |-> conf.Routes,
     secret |-> IF reader.err THEN DefaultSecret ELSE reader.data]

NewJwtAuthCall(conf, reader) ==
    /\ jwtAuth' = [conf |-> conf, reader |-> reader,
                   Enabled |-> NewJwtAuth(conf, reader).Enabled,
                   Anonymous |-> NewJwtAuth(conf, reader).Anonymous,
                   Routes |-> NewJwtAuth(conf, reader).Routes,
                   secret |-> NewJwtAuth(conf, reader).secret,
                   made |-> TRUE]
    /\ UNCHANGED <<forward, cache, sweepers>>
    /\ UNCHANGED nonUnitVars

JwtNext == \E conf \in AuthSettings, reader \in Readers : NewJwtAuthCall(conf, reader)

(***************************************************************************)
(* SWEEP LOOPS: every limiter constructor runs `go rl.CleanupVisitors()`.  *)
(***************************************************************************)
\* number of limiters constructed in the model
MaxLimiters == 4
LimiterIds == 1..MaxLimiters

\* holder: what refers to the limiter ("global": the RequestHandler, a name:
\* the *Service registered under it, "none": nothing but its own goroutine);
\* loop: "none" (no goroutine), "sleep" (in time.Sleep) or "sweep" (in the
\* range over rl.visitors)
NoLimiter == [built |-> FALSE, holder |-> "none", loop |-> "none"]

\* the loop after a round: `for { ... }` has no exit
CleanupLoop_EndsWhenDropped(l) == IF l.holder = "none" THEN "none" ELSE "sleep"
CleanupLoop(l) == "sleep"

\* NewServiceRateLimiter, NewGlobalRateLimiter: the limiter, its loop started
NewLimiter(holder) == [built |-> TRUE, holder |-> holder, loop |-> "sleep"]

\* boot: NewRequestHandler builds the global limiter and
\* populateRegistryServices the limiter of svc1
SweepersInit ==
    sweepers = [i \in LimiterIds |->
                   CASE i = 1 -> NewLimiter("global")
                     [] i = 2 -> NewLimiter("svc1")
                     [] OTHER -> NoLimiter]

Built == {i \in LimiterIds : sweepers[i].built}
LiveLoops == {i \in LimiterIds : sweepers[i].loop # "none"}
HeldBy(name) == {i \in LimiterIds : sweepers[i].built /\ sweepers[i].holder = name}

\* the registry entry of `name` is overwritten by a *Service holding a new
\* limiter, or deleted (holder "none")
Rehold(name, new) ==
    [i \in LimiterIds |->
        IF i \in HeldBy(name) THEN [sweepers[i] EXCEPT !.holder = "none"]
        ELSE IF i = Cardinality(Built) + 1 /\ new THEN NewLimiter(name)
        ELSE sweepers[i]]

\* RegisterService: NewServiceRateLimiter, then Register stores the *Service
RegisterLimiter(name) ==
    /\ Cardinality(Built) < MaxLimiters
    /\ sweepers' = Rehold(name, TRUE)
    /\ UNCHANGED <<forward, cache, jwtAuth>>
    /\ UNCHANGED nonUnitVars

\* UpdateService of a registered name: NewServiceRateLimiter, then Update
UpdateLimiter(name) ==
    /\ Cardinality(Built) < MaxLimiters
    /\ HeldBy(name) # {}
    /\ sweepers' = Rehold(name, TRUE)
    /\ UNCHANGED <<forward, cache, jwtAuth>>
    /\ UNCHANGED nonUnitVars

\* Deregister: the entry is deleted
DeregisterLimiter(name) ==
    /\ HeldBy(name) # {}
    /\ sweepers' = Rehold(name, FALSE)
    /\ UNCHANGED <<forward, cache, jwtAuth>>
    /\ UNCHANGED nonUnitVars

\* CleanupVisitors of limiter i: time.Sleep(time.Minute) returns
SweepWake(i) ==
    /\ sweepers[i].loop = "sleep"
    /\ sweepers' = [sweepers EXCEPT ![i].loop = "sweep"]
    /\ UNCHANGED <<forward, cache, jwtAuth>>
    /\ UNCHANGED nonUnitVars

\* CleanupVisitors of limiter i: the range is done, rl.mu.Unlock(), next round
SweepRound(i) ==
    /\ sweepers[i].loop = "sweep"
    /\ sweepers' = [sweepers EXCEPT ![i].loop = CleanupLoop(sweepers[i])]
    /\ UNCHANGED <<forward, cache, jwtAuth>>
    /\ UNCHANGED nonUnitVars

SweepersNext ==
    \/ \E name \in Names : RegisterLimiter(name)
    \/ \E name \in Names : UpdateLimiter(name)
    \/ \E name \in Names : DeregisterLimiter(name)
    \/ \E i \in LimiterIds : SweepWake(i)
    \/ \E i \in LimiterIds : SweepRound(i)

UnitInit == ForwardInit /\ CacheInit /\ JwtInit /\ SweepersInit

(***************************************************************************)
(* CONTROL PLANE: POST /services/register and /services/update with their  *)
(* bodies and answers.                                                     *)
(***************************************************************************)
\* a request body: whether it decodes into ServiceConf, and the fields the
\* decoded struct then holds (whitelist nil when the key is missing, health
\* the zero struct when the key is missing or holds zero values)
PostBody(decodes, Name, conf, whitelistNil, healthZero) ==
    [decodes |-> decodes, Name |-> Name, conf |-> conf,
     whitelistNil |-> whitelistNil, healthZero |-> healthZero]

PostConfs == {c \in WhitelistConfs : ~c.RateLimiter.Enabled} \cup NoAddrConfs

PostBodies ==
    {PostBody(d, n, c, w, h) :
        d \in BOOLEAN, n \in {"", "svc1"}, c \in PostConfs, w \in BOOLEAN,
        h \in BOOLEAN}

NoPost == [op |-> "none", body |-> PostBody(FALSE, "", NoConf, TRUE, TRUE),
           status |-> 0, msg |-> ""]

CtlInit == post = NoPost

\* config.Validate.Struct: the fields tagged validate:"required" (validator
\* with WithRequiredStructEnabled: a string must be non-empty, a slice
\* non-nil, a struct not its zero value)
ValidateStruct_NameOnly(b) == b.Name # ""
ValidateStruct(b) ==
    /\ b.Name # ""
    /\ b.conf.Addr # NoAddress
    /\ ~b.whitelistNil
    /\ ~b.healthZero

\* what a rejected POST leaves alone
RegistryState ==
    <<Services, svcConf, svcBreaker, svcCache, svcVisitors, svcWhitelist, prev>>

Answer(op, b, status, msg) ==
    post' = [op |-> op, body |-> b, status |-> status, msg |-> msg]

\* ServiceRegistry.RegisterService with its request body and its response
\* (the names posted are "" and svc1)
RegisterServicePost(b) ==
    /\ b \in PostBodies
    /\ IF ~b.decodes
       THEN Answer("register", b, 400, "err") /\ UNCHANGED RegistryState
       ELSE IF ~ValidateStruct(b)
       THEN /\ Answer("register", b, 400, "Error validating request body\n")
            /\ UNCHANGED RegistryState
       ELSE /\ StoreNew(b.conf)
            /\ Answer("register", b, 200, "service svc1 registered")
    /\ UNCHANGED <<bootConf, glLimiter, glVisitors, req, nreq>>
    /\ UNCHANGED <<now, lockVars, limVars, cbVars, wlVars, unitVars>>

\* ServiceRegistry.UpdateService with its request body and its response
UpdateServicePost(b) ==
    /\ b \in PostBodies
    /\ IF ~b.decodes
       THEN Answer("update", b, 400, "err") /\ UNCHANGED RegistryState
       ELSE IF ~ValidateStruct(b)
       THEN /\ Answer("update", b, 400, "Error validating request body\n")
            /\ UNCHANGED RegistryState
       ELSE IF Lookup(b.Name) = Nil
       THEN /\ Answer("update", b, 400, "service doesn't exists\n")
            /\ UNCHANGED RegistryState
       ELSE /\ StoreNew(b.conf)
            /\ Answer("update", b, 200, "service svc1 updated")
    /\ UNCHANGED <<bootConf, glLimiter, glVisitors, req, nreq>>
    /\ UNCHANGED <<now, lockVars, limVars, cbVars, wlVars, unitVars>>

CtlNext ==
    \/ \E b \in PostBodies : RegisterServicePost(b)
    \/ \E b \in PostBodies : UpdateServicePost(b)
    \/ \E name \in Names : DeregisterService(name)

(***************************************************************************)
(* ALLOW-LIST: one IPWhiteList, populated from lists, replaced by          *)
(* UpdateWhitelist and queried by Allowed.                                 *)
(***************************************************************************)
MaxList == 3
WlKeys == {"ALL", "10.0.0.1", "10.0.0.2"}
WlIPs == {"10.0.0.1", "10.0.0.2", "10.0.0.3", "ALL"}
RECURSIVE ListsUpTo(_)
ListsUpTo(n) ==
    IF n = 0 THEN {<<>>}
    ELSE LET shorter == ListsUpTo(n - 1)
         IN shorter \cup {Append(l, k) : l \in {x \in shorter : Len(x) = n - 1},
                                         k \in WlKeys}
IpLists == ListsUpTo(MaxList)

\* map[string]bool values UpdateWhitelist may be handed
WlMaps == UNION {[K -> BOOLEAN] : K \in SUBSET WlKeys}

\* NewIPWhiteList
NewIPWhiteList ==
    [Whitelist |-> EmptyMap, ipList |-> <<>>, populated |-> FALSE,
     ip |-> "", asked |-> FALSE, allowed |-> FALSE]

WlInit == ipWhiteList = NewIPWhiteList

\* w := NewIPWhiteList(); PopulateIPWhiteList(w, ipList)
Populate_New(ipList) ==
    /\ ipWhiteList' = [NewIPWhiteList EXCEPT
                          !.Whitelist = [k \in PopulateIPWhiteList(ipList) |-> TRUE],
                          !.ipList = ipList, !.populated = TRUE]
    /\ UNCHANGED nonWlVars

\* w.UpdateWhitelist(newList)
UpdateWhitelist(newList) ==
    /\ ipWhiteList' = [NewIPWhiteList EXCEPT !.Whitelist = newList]
    /\ UNCHANGED nonWlVars

\* w.Allowed(ip)
AllowedCall(ip) ==
    /\ ipWhiteList' = [ipWhiteList EXCEPT
                          !.ip = ip, !.asked = TRUE,
                          !.allowed = Allowed(DOMAIN ipWhiteList.Whitelist, ip)]
    /\ UNCHANGED nonWlVars

WlNext ==
    \/ \E ipList \in IpLists : Populate_New(ipList)
    \/ \E newList \in WlMaps : UpdateWhitelist(newList)
    \/ \E ip \in WlIPs : AllowedCall(ip)

LimIdle ==
    /\ limiter = [limitertype |-> "Service", Rate |-> 0, Burst |-> 1, Cleanup |-> 30]
    /\ visitors = [k \in Keys |-> Nil]
    /\ bucket = [r \in Reqs |-> NoVisitor]
    /\ nextSweep = SweepEvery
    /\ lreq = [r \in Reqs |-> NewReq]
    /\ admitted = [ip \in IPs |-> 0]
    /\ sweeps = 0
    /\ ticks = 0

CbIdle ==
    /\ cbSettings = [Enabled |-> FALSE, Timeout |-> 1, Interval |-> 0, FailureRatio |-> 0]
    /\ cb = NewBreaker(Into(cbSettings), 0)
    /\ call = [c \in Callers |-> IdleCall]
    /\ lastRec = NoRec
    /\ openedAt = 0
    /\ ncalls = 0

GwIdle ==
    /\ svcConf = [i \in SvcIds |-> NoConf]
    /\ svcBreaker = [i \in SvcIds |-> NewBreaker(Into(NoConf.CircuitBreaker), 0)]
    /\ svcCache = [i \in SvcIds |-> EmptyMap]
    /\ svcVisitors = [i \in SvcIds |-> EmptyMap]
    /\ svcWhitelist = [i \in SvcIds |-> {}]
    /\ bootConf = NoConf
    /\ glLimiter = [Enabled |-> FALSE, Rate |-> 0, Burst |-> 1]
    /\ glVisitors = EmptyMap
    /\ req = IdleReq
    /\ prev = NoPrev
    /\ nreq = 0

LockIdle ==
    /\ rwWriter = NoTask
    /\ rwHeld = FALSE
    /\ rwReaders = {}
    /\ mapBusy = FALSE
    /\ task = [t \in Tasks |-> IdleTask]
    /\ stored = [n \in Names |-> Nil]

\* the registry under concurrent Register/Update/Deregister/GetService
InitRegistry ==
    /\ RegInit
    /\ WlInit
    /\ CtlInit
    /\ UnitInit
    /\ now = 0
    /\ LimIdle
    /\ CbIdle
    /\ GwIdle

SpecRegistry == InitRegistry /\ [][RegNext]_vars

\* one limiter under concurrent requests, its sweep loop and the clock
InitLimiter ==
    /\ LimInit
    /\ WlInit
    /\ CtlInit
    /\ UnitInit
    /\ RegInit
    /\ CbIdle
    /\ GwIdle

SpecLimiter == InitLimiter /\ [][LimNext]_vars

\* one breaker under concurrent Execute calls and the clock
InitBreaker ==
    /\ CbInit
    /\ WlInit
    /\ CtlInit
    /\ UnitInit
    /\ now = 0
    /\ RegInit
    /\ LimIdle
    /\ GwIdle

SpecBreaker == InitBreaker /\ [][CbNext]_vars

\* the gateway: requests one after another, the control plane and the clock
Init ==
    /\ GwInit
    /\ WlInit
    /\ CtlInit
    /\ UnitInit
    /\ LockIdle
    /\ LimIdle
    /\ CbIdle

Spec == Init /\ [][Next]_vars

\* one allow-list, populated, replaced and queried
InitWhitelist ==
    /\ WlInit
    /\ CtlInit
    /\ UnitInit
    /\ RegInit
    /\ now = 0
    /\ LimIdle
    /\ CbIdle
    /\ GwIdle

SpecWhitelist == InitWhitelist /\ [][WlNext]_vars

\* resolvePath and createForwardURI as functions of their inputs
InitUnits ==
    /\ UnitInit
    /\ WlInit
    /\ CtlInit
    /\ RegInit
    /\ now = 0
    /\ LimIdle
    /\ CbIdle
    /\ GwIdle

SpecForward == InitUnits /\ [][ForwardNext]_vars

\* NewJwtAuth as a function of its inputs
SpecJwtAuth == InitUnits /\ [][JwtNext]_vars

\* one cache under Set, Get, its janitor and the clock
SpecCache == InitUnits /\ [][CacheNext]_vars

\* the limiters of the control plane and their sweep loops
SpecSweepers == InitUnits /\ [][SweepersNext]_vars

\* the control plane: register, update and deregister one after another
SpecControl == Init /\ [][CtlNext]_vars

(***************************************************************************)
(* C1: every GetService(N) returns the entry most recently stored for N    *)
(* by a Register or by an Update that found N present, and none when N was *)
(* never registered or was last deregistered, in every interleaving.       *)
(***************************************************************************)
C1_GetServiceReturnsLastStored ==
    \A t \in Tasks :
        task[t].pc = "GetService_ret" => task[t].result = task[t].expect

\* a lookup returned a stored entry while a Deregister of the same name waits
\* for the readers to leave, and another lookup returned none
C1_Witness ==
    \E t, u, w \in Tasks :
        /\ task[t].pc = "GetService_ret" /\ task[t].result = 2
        /\ task[u].pc = "Deregister_wait" /\ task[u].name = task[t].name
        /\ task[w].pc = "GetService_ret" /\ task[w].result = Nil

(***************************************************************************)
(* C5: on one limiter with burst b, while no refill token has become       *)
(* available and no sweep has run, at most b requests of one source IP are *)
(* admitted, also when the first requests of that IP arrive concurrently.  *)
(***************************************************************************)
C5_AtMostBurstAdmitted ==
    (now = 0 /\ sweeps = 0 /\ limiter.limitertype = "Service") =>
        \A ip \in IPs : admitted[ip] <= limiter.Burst

(***************************************************************************)
(* C6: in Closed, right after a failed call is recorded the breaker moves  *)
(* to Open if and only if totalFailures / requests of the current window   *)
(* is at least failureRatio; a recorded success never trips it, and        *)
(* neither does a window without requests.                                 *)
(***************************************************************************)
C6_TripsIffRatioReached ==
    /\ (lastRec.kind = "failure" /\ lastRec.from = "closed") =>
          (lastRec.to = "open" <=>
              /\ lastRec.counts.Requests > 0
              /\ lastRec.counts.TotalFailures * 10 >=
                     cbSettings.FailureRatio * lastRec.counts.Requests)
    /\ (lastRec.kind = "success" /\ lastRec.from = "closed") => lastRec.to = "closed"
    /\ (lastRec.from = "closed" /\ lastRec.counts.Requests = 0) => lastRec.to = "closed"

\* a failure that brings the ratio exactly to a non-zero failureRatio trips
C6_Witness ==
    /\ lastRec.kind = "failure"
    /\ lastRec.from = "closed"
    /\ lastRec.to = "open"
    /\ cbSettings.FailureRatio > 0
    /\ lastRec.counts.TotalFailures * 10 = cbSettings.FailureRatio * lastRec.counts.Requests
    /\ lastRec.counts.TotalFailures < lastRec.counts.Requests

(***************************************************************************)
(* C7: the breaker moves only Closed -> Open, Open -> HalfOpen (after      *)
(* openTimeout has elapsed), HalfOpen -> Closed and HalfOpen -> Open; an   *)
(* Execute that finds it Open before openTimeout has elapsed returns the   *)
(* open-state error without invoking the wrapped call; in HalfOpen one     *)
(* probe is admitted and its result decides the state.                     *)
(***************************************************************************)
C7_BreakerStateMachine ==
    /\ [][/\ cb'.state # cb.state =>
                /\ <<cb.state, cb'.state>> \in
                      {<<"closed", "open">>, <<"open", "half-open">>,
                       <<"half-open", "closed">>, <<"half-open", "open">>}
                /\ cb.state = "open" => now > openedAt + cbSettings.Timeout
                /\ cb.state = "half-open" =>
                      /\ cb.counts.Requests = 1
                      /\ \E c \in Callers :
                            /\ call[c].pc = "running" /\ call'[c].pc = "returned"
                            /\ call[c].generation = cb.generation
                            /\ cb'.state = IF call'[c].err = "" THEN "closed" ELSE "open"
          /\ \A c \in Callers :
                (/\ call'[c] # call[c]
                 /\ call[c].pc # "running"
                 /\ cb.state = "open"
                 /\ now <= openedAt + cbSettings.Timeout) =>
                    /\ call'[c].err = "ErrOpenState"
                    /\ ~call'[c].invoked
                    /\ call'[c].pc = "returned"]_vars
    /\ [](cb.state = "half-open" =>
            Cardinality({c \in Callers : /\ call[c].pc = "running"
                                         /\ call[c].generation = cb.generation}) <= 1)

\* a probe admitted after the timeout closed the breaker again, while a second
\* caller was refused
C7_Witness ==
    /\ cb.state = "closed"
    /\ lastRec.kind = "success"
    /\ lastRec.from = "half-open"
    /\ \E c \in Callers : call[c].err = "ErrOpenState" /\ ~call[c].invoked

(***************************************************************************)
(* Properties of the request pipeline (specification Spec).                *)
(***************************************************************************)
\* a request is being handled or has just been answered
Handled == req.pc # "idle"

\* the request was resolved to a registered service
Resolved == Handled /\ req.svc # Nil

\* the source IP of the request is no member of the allow-list of its service,
\* and that allow-list does not contain "ALL"
NotOnAllowList ==
    /\ Resolved
    /\ SplitOk(req.in.addr)
    /\ LET wl == PopulateIPWhiteList(svcConf[req.svc].WhiteList)
       IN "ALL" \notin wl /\ req.in.addr.ip \notin wl

\* the calls this request made to upstreams
Called(target) == \E i \in 1..Len(req.upstream) : req.upstream[i] = target

\* C2 as stated: a request from an address that is not on the allow-list is
\* answered 401 and reaches no upstream
C2_NotListedIs401 ==
    NotOnAllowList =>
        /\ req.pc = "done"
        /\ req.status = 401
        /\ req.upstream = <<>>

\* C2, amended: a request from an address that is not on the allow-list reaches
\* no upstream; it is answered 429 when the global or the per-service limiter
\* denies it first, and 401 `unauthorized` otherwise
C2_NotListedIs401Or429 ==
    NotOnAllowList =>
        /\ req.pc = "done"
        /\ req.upstream = <<>>
        /\ \/ req.stage = "whitelist" /\ req.status = 401
              /\ req.body = "unauthorized\n"
           \/ req.stage = "ratelimit" /\ req.status = 429
              /\ svcConf[req.svc].RateLimiter.Enabled
           \/ req.stage = "middleware" /\ req.status = 429
              /\ glLimiter.Enabled

\* a request from 10.0.0.2 is refused by the allow-list built from
\* ["10.0.0.1", "ALL"]
C2_Witness ==
    /\ NotOnAllowList
    /\ req.status = 401
    /\ req.in.addr = Addr2
    /\ svcConf[req.svc].WhiteList = <<"10.0.0.1", "ALL">>

\* the request is at the forward stage of a service whose breaker is enabled
\* and Open
AtOpenBreaker ==
    /\ req.pc = "forward"
    /\ Lookup(req.name) # Nil
    /\ svcConf[Lookup(req.name)].CircuitBreaker.Enabled
    /\ CurrentState(svcBreaker[req.svc], BreakerSettings(req.svc), now).state = "open"

\* C3: a request at the forward stage of a service whose breaker is enabled and
\* Open makes no call to the primary upstream; it is forwarded to the fallback
\* URI when that is non-empty and answered 404 when it is empty
C3_OpenBreakerGoesToFallback ==
    /\ [][(AtOpenBreaker /\ req' # req) =>
            /\ req'.cbErr = "ErrOpenState"
            /\ IF GetFallbackUri(req.name) # NoAddress
               THEN /\ req'.pc = "fallback"
                    /\ req'.upstream = <<"fallback">>
                    /\ req'.fallbackUri = GetFallbackUri(req.name)
               ELSE /\ req'.pc = "done"
                    /\ req'.status = 404
                    /\ req'.upstream = <<>>]_vars
    /\ [](req.cbErr = "ErrOpenState" => ~Called("primary"))

\* a request refused by the open breaker was answered by the fallback upstream
C3_Witness ==
    /\ req.pc = "done"
    /\ req.cbErr = "ErrOpenState"
    /\ req.upstream = <<"fallback">>
    /\ req.status = 200
    /\ req.body = "A"

\* the request reached the cache probe of HandleRequest
Probed == Handled /\ req.stage \in {"cache", "forward", "forwarded", "down",
                                    "nofallback", "panic"}

\* the request immediately follows a forward of the same URL to the same
\* service that succeeded with the cache enabled, within the TTL
FollowsForward ==
    /\ req.pc = "done"
    /\ Probed
    /\ prev # NoPrev
    /\ prev.status = 200
    /\ req.svc = prev.svc
    /\ GenerateCacheKey(req.name, req.in.parts, req.in.query) = prev.key
    /\ svcConf[prev.svc].Cache.Enabled
    /\ now < prev.at + svcConf[prev.svc].Cache.ExpirationInterval

\* C4: the request that immediately follows a successful forward of the same
\* URL is answered 200 with the upstream body of that forward, without a call
\* to an upstream, on the breaker path as on the plain path
C4_CacheRoundTrip ==
    FollowsForward =>
        /\ req.stage = "cache"
        /\ req.status = 200
        /\ req.body = prev.body
        /\ req.upstream = <<>>

\* authentication ran for the request
AuthRan == Handled /\ req.authErr # ""

\* the first route segment after the service name is in protectedRoutes
Protected == Len(req.in.parts) >= 3
             /\ ("/" \o req.in.parts[3]) \in svcConf[req.svc].Auth.Routes

\* the token is a well-formed one whose exp has passed
Expired(token) == token.kind = "jwt" /\ token.exp # NoExp /\ token.exp <= now

\* the token is a well-formed one signed with another key
BadSignature(token) == token.kind = "jwt" /\ token.key # svcConf[req.svc].Auth.secret

\* C8: on a protected route with auth enabled and anonymous=false, a request
\* without a token is answered 401 `token missing`, one with an expired token
\* or a bad signature 401 `invalid token`; no upstream is called and no
\* X-Claims header is added
C8_MissingOrInvalidTokenIs401 ==
    (AuthRan /\ Protected /\ svcConf[req.svc].Auth.Enabled
       /\ ~svcConf[req.svc].Auth.Anonymous) =>
        /\ req.in.token = NoToken =>
              /\ req.pc = "done" /\ req.status = 401
              /\ req.body = "token missing\n"
              /\ req.upstream = <<>> /\ req.xclaims = req.in.xclaims
        /\ (Expired(req.in.token) \/ BadSignature(req.in.token)) =>
              /\ req.pc = "done" /\ req.status = 401
              /\ req.body = "invalid token\n"
              /\ req.upstream = <<>> /\ req.xclaims = req.in.xclaims

\* an expired token was refused on a protected route
C8_Witness ==
    /\ AuthRan /\ Protected
    /\ svcConf[req.svc].Auth.Enabled /\ ~svcConf[req.svc].Auth.Anonymous
    /\ req.in.token = ExpiredToken
    /\ req.status = 401
    /\ req.body = "invalid token\n"

\* C9: for every path, Authenticate succeeds and leaves the headers as they
\* were when auth is disabled or the route is not protected
C9_UnprotectedAlwaysPasses ==
    (AuthRan /\ (~svcConf[req.svc].Auth.Enabled \/ ~Protected)) =>
        /\ req.authErr = "nil"
        /\ req.xclaims = req.in.xclaims

\* C10: with auth enabled and anonymous=true, a request to a protected route
\* with no token or an expired one passes authentication, goes on to the
\* forward, and reaches the upstream with no X-Claims header added
C10_AnonymousPassesWithoutClaims ==
    (AuthRan /\ Protected /\ svcConf[req.svc].Auth.Enabled
       /\ svcConf[req.svc].Auth.Anonymous
       /\ (req.in.token = NoToken \/ Expired(req.in.token))) =>
        /\ req.authErr = "nil"
        /\ req.xclaims = req.in.xclaims
        /\ req.status # 401
        /\ (svcConf[req.svc].Addr # NoAddress /\ ~svcConf[req.svc].Cache.Enabled)
              => req.stage \in {"forward", "forwarded", "down", "nofallback", "panic"}
        /\ req.upstream # <<>> => req.upstreamXClaims = req.in.xclaims

\* a request with an expired token was answered by the upstream, which saw no
\* X-Claims header
C10_Witness ==
    /\ AuthRan /\ Protected
    /\ svcConf[req.svc].Auth.Enabled /\ svcConf[req.svc].Auth.Anonymous
    /\ req.in.token = ExpiredToken
    /\ req.pc = "done"
    /\ req.upstream = <<"primary">>
    /\ req.upstreamXClaims = <<>>
    /\ req.status = 200

\* authentication ran on a protected route of a service with auth enabled
AuthApplied == AuthRan /\ Protected /\ svcConf[req.svc].Auth.Enabled

\* C11: with anonymous=true, a token that fails to parse or whose signature
\* does not verify is still rejected by Authenticate
C11_AnonymousStillRejectsBadTokens ==
    (AuthApplied /\ svcConf[req.svc].Auth.Anonymous
       /\ (req.in.token.kind = "garbage" \/ BadSignature(req.in.token))) =>
        /\ req.authErr \in {"ErrInvalidToken", "ErrTokenMissing"}
        /\ req.upstream = <<>>

\* the token is signed with the service secret over claims with a future exp
ValidFor(token) ==
    /\ token.kind = "jwt"
    /\ token.key = svcConf[req.svc].Auth.secret
    /\ token.exp # NoExp /\ token.exp > now

\* C12: a request to a protected route with a token signed with the service
\* secret over claims c with a future exp passes authentication and reaches the
\* upstream with an X-Claims header that decodes to c
C12_ClaimsRoundTrip ==
    (AuthApplied /\ ValidFor(req.in.token)) =>
        /\ req.authErr = "nil"
        /\ req.xclaims = req.in.xclaims \o <<ClaimsOf(req.in.token)>>
        /\ req.upstream # <<>> => req.upstreamXClaims = req.xclaims

\* the step is the arrival of a request that the middleware hands to
\* HandleRequest while the registry has no entry under its first path segment
ArrivesUnknown ==
    /\ req.pc = "idle" /\ req'.pc # "idle"
    /\ req'.stage # "middleware"
    /\ LET n == ResolveName(req'.in.parts)
       IN n \notin DOMAIN Services \/ Services[n] = Nil

\* the answer to a request for an unknown service, and what it leaves alone
BadRequestOnly ==
    /\ req'.pc = "done" /\ req'.status = 400 /\ req'.body = "Bad Request\n"
    /\ svcVisitors' = svcVisitors
    /\ svcCache' = svcCache
    /\ req'.stage = "resolve" /\ req'.cachedIn = Nil
    /\ req'.upstream = <<>>

\* C13 as stated: a request whose first path segment names no registry entry
\* is answered 400 `Bad Request`; no limiter token (global or per-service) is
\* consumed, no cache is read, no upstream call is made
C13_UnknownServiceIs400NoToken ==
    [][ArrivesUnknown => (BadRequestOnly /\ glVisitors' = glVisitors)]_vars

\* C13 (amended): as above, except that the global limiter, when enabled, has
\* taken one token of the source before the lookup
C13_UnknownServiceIs400 ==
    [][ArrivesUnknown =>
          /\ BadRequestOnly
          /\ glVisitors' = IF glLimiter.Enabled
                           THEN LimiterTake(glVisitors, RemoteAddrString(req'.in.addr),
                                            glLimiter, now)
                           ELSE glVisitors]_vars

\* a request for a service that is not registered was answered 400 after the
\* global limiter took a token
C13_Witness ==
    /\ req.pc = "done" /\ req.stage = "resolve" /\ req.status = 400
    /\ req.name = "svc2" /\ Services["svc2"] = Nil
    /\ glLimiter.Enabled /\ glVisitors # EmptyMap

\* the step is the arrival of a request
Arrives == req.pc = "idle" /\ req'.pc # "idle"

\* the global bucket of the arriving request's source has no token
GlobalBucketEmpty ==
    ~LimiterAllows(glVisitors, RemoteAddrString(req'.in.addr), glLimiter, now)

\* C14: with the global limiter enabled and the source's global bucket empty,
\* the request is answered 429 and no pipeline stage runs (no per-service
\* token consumed, no cache touched, no upstream call); with the global
\* limiter disabled no request is rejected by it and it holds no visitor
C14_GlobalLimiterShortCircuits ==
    [][/\ (Arrives /\ glLimiter.Enabled /\ GlobalBucketEmpty) =>
             /\ req'.pc = "done" /\ req'.stage = "middleware"
             /\ req'.status = 429 /\ req'.body = "Too Many Requests\n"
             /\ svcVisitors' = svcVisitors
             /\ svcCache' = svcCache
             /\ req'.authErr = IdleReq.authErr
             /\ req'.upstream = <<>>
       /\ ~glLimiter.Enabled =>
             /\ glVisitors = EmptyMap /\ glVisitors' = EmptyMap
             /\ Arrives => req'.stage # "middleware"]_vars

\* the second request of a source was answered 429 by the middleware
C14_Witness ==
    /\ req.pc = "done" /\ req.stage = "middleware" /\ req.status = 429
    /\ glLimiter.Enabled
    /\ nreq = 2

\* C15: Allowed(ip) is true iff the allow-list has the key "ALL" or has ip as
\* a key; on an empty allow-list every ip is denied
C15_AllowedIffAllOrMember ==
    ipWhiteList.asked =>
        LET keys == DOMAIN ipWhiteList.Whitelist
        IN /\ ipWhiteList.allowed <=> ("ALL" \in keys \/ ipWhiteList.ip \in keys)
           /\ keys = {} => ~ipWhiteList.allowed

\* an ip that is no key was allowed by the wildcard, whatever value it maps to
C15_Witness ==
    /\ ipWhiteList.asked /\ ipWhiteList.allowed
    /\ ipWhiteList.ip = "10.0.0.3"
    /\ DOMAIN ipWhiteList.Whitelist = {"ALL", "10.0.0.1"}
    /\ ~ipWhiteList.Whitelist["ALL"]

\* the elements of a list
Elements(l) == {l[i] : i \in 1..Len(l)}

\* C16: PopulateIPWhiteList(L) on an empty allow-list gives exactly {"ALL"}
\* when L is non-empty and L[0] = "ALL", and otherwise exactly the elements of
\* L other than "ALL"
C16_PopulateSemantics ==
    ipWhiteList.populated =>
        LET L == ipWhiteList.ipList
            keys == DOMAIN ipWhiteList.Whitelist
        IN /\ (L # <<>> /\ L[1] = "ALL") => keys = {"ALL"}
           /\ ~(L # <<>> /\ L[1] = "ALL") => keys = Elements(L) \ {"ALL"}
           /\ L = <<>> => keys = {}
           /\ \A k \in keys : ipWhiteList.Whitelist[k]

\* "ALL" at a later index grants no wildcard
C16_Witness ==
    /\ ipWhiteList.populated
    /\ ipWhiteList.ipList = <<"10.0.0.1", "ALL">>
    /\ DOMAIN ipWhiteList.Whitelist = {"10.0.0.1"}
    /\ ipWhiteList.asked /\ ipWhiteList.ip = "10.0.0.2" /\ ~ipWhiteList.allowed

\* the request has come to the allow-list stage of the service it resolved
ReachedAllowList ==
    Resolved /\ req.stage \notin {"middleware", "resolve", "ratelimit"}

\* C17: after an update of a service with whitelist W its allow-list is exactly
\* the set PopulateIPWhiteList builds from W, and every request is decided by
\* the whole allow-list of the *Service it resolved: nothing of an earlier
\* list is left, and no request sees part of one list and part of another
C17_UpdateReplacesAllowList ==
    /\ \A i \in SvcIds :
          svcWhitelist[i] = PopulateIPWhiteList(svcConf[i].WhiteList)
    /\ ReachedAllowList =>
          (req.stage = "whitelist" <=>
              ~IsWhitelisted(PopulateIPWhiteList(svcConf[req.svc].WhiteList),
                             req.in.addr))

\* svc1, booted with ["10.0.0.1"], was updated to the empty whitelist and a
\* request from 10.0.0.1 is now refused
C17_Witness ==
    /\ bootConf.WhiteList = <<"10.0.0.1">>
    /\ ReachedAllowList
    /\ req.svc = Services["svc1"]
    /\ svcConf[req.svc].WhiteList = <<>>
    /\ req.in.addr = Addr1
    /\ req.stage = "whitelist" /\ req.status = 401

\* C18: an Update that holds the writer lock while its name is absent leaves
\* the registry unchanged, so an absent name becomes present only by a
\* Register of that name, however Update and Deregister interleave
C18_UpdateOfAbsentIsNoOp ==
    [][/\ \A t \in Tasks :
             (task[t].pc = "Update_write" /\ task'[t].pc = "idle"
                /\ Services[task[t].name] = Nil) => Services' = Services
       /\ \A n \in Names :
             (Services[n] = Nil /\ Services'[n] # Nil) =>
                 \E t \in Tasks : /\ task[t].pc = "Register_write"
                                  /\ task[t].name = n
                                  /\ task'[t].pc = "idle"]_vars

\* a lookup found the name, a Deregister removed it, and an Update of the same
\* name now holds the writer lock and has found it absent
C18_Witness ==
    \E t, u \in Tasks :
        /\ task[u].pc = "GetService_ret" /\ task[u].result # Nil
        /\ task[t].pc = "Update_write" /\ task[t].name = task[u].name
        /\ ~task[t].found
        /\ Services[task[t].name] = Nil

\* the step is a POST /services/register or /services/update
Posts(op) == post' # post /\ post'.op = op

\* the posted body fails to decode or lacks a required field
BadBody(b) ==
    \/ ~b.decodes
    \/ b.Name = ""
    \/ b.conf.Addr = NoAddress
    \/ b.whitelistNil
    \/ b.healthZero

\* the registry holds no entry under the name
Lookup_Absent(name) == name \notin DOMAIN Services \/ Services[name] = Nil

\* C19: a register or update whose body fails to decode or lacks name, addr,
\* whitelist or health, and an update that names a service that is not
\* registered, is answered 400 and leaves the registry as it was
C19_BadPostIs400 ==
    [][(\/ (Posts("register") \/ Posts("update")) /\ BadBody(post'.body)
        \/ Posts("update") /\ Lookup_Absent(post'.body.Name)) =>
            /\ post'.status = 400
            /\ UNCHANGED RegistryState]_vars

\* an update with a complete body was refused because svc1 is not registered
C19_Witness ==
    /\ post.op = "update" /\ post.status = 400
    /\ ~BadBody(post.body)
    /\ post.body.Name = "svc1" /\ Services["svc1"] = Nil

\* the request ended in a rejection by the gateway: 400 unknown service, 401
\* allow-list or auth, 404 no address or no fallback, 429 limiter, 500
\* upstream failure
TerminalRejection ==
    req.pc = "done" /\ req.status \in {400, 401, 404, 429, 500}

\* C20: every request that ends in a terminal rejection records exactly one
\* metric sample
C20_OneSamplePerRejection ==
    TerminalRejection => Len(req.metrics) = 1

\* the decimal string of n, as the sequence of its code points ("0" is 48)
RECURSIVE Itoa(_)
Itoa(n) == IF n < 10 THEN <<48 + n>> ELSE Append(Itoa(n \div 10), 48 + (n % 10))

\* C21: the Code label of every metric sample of a request is the decimal
\* string of the HTTP status written to the client
C21_CodeIsDecimalStatus ==
    req.pc = "done" =>
        \A i \in 1..Len(req.metrics) : req.metrics[i] = Itoa(req.status)

\* the segments of a path after its first one, each preceded by "/"
RECURSIVE Slashed(_)
Slashed(segs) ==
    IF segs = <<>> THEN "" ELSE "/" \o Head(segs) \o Slashed(Tail(segs))

\* C22: the service name is the first segment of the path, the route is the
\* segments after it, and the forward URI is the address (behind "http://"
\* when it has no http:// or https:// prefix), "/", the route joined by "/",
\* and "?" with the raw query only when the query is non-empty; so the
\* upstream path is the inbound path without its service segment, a trailing
\* slash included
C22_ForwardUri ==
    forward.called =>
        LET a == forward.address
            \* a path without "/" is its own first segment
            segs == IF Len(forward.parts) < 2 THEN forward.parts
                    ELSE Tail(forward.parts)
            prefixed == IF a.scheme \in {"http://", "https://"}
                        THEN a.scheme \o a.host
                        ELSE "http://" \o a.scheme \o a.host
            upstreamPath == IF Len(segs) = 1 THEN "/" ELSE Slashed(Tail(segs))
        IN /\ forward.serviceName = Head(segs)
           /\ forward.route = Tail(segs)
           /\ PathOf(forward.parts) =
                 (IF Len(forward.parts) < 2 THEN "" ELSE "/")
                   \o Head(segs) \o Slashed(Tail(segs))
           /\ forward.forwardUri =
                 prefixed \o upstreamPath
                   \o (IF forward.query = "" THEN "" ELSE "?" \o forward.query)

\* /svc1/a/ with a query, for an address without a scheme
C22_Witness ==
    /\ forward.called
    /\ forward.parts = <<"", "svc1", "a", "">>
    /\ forward.address = [scheme |-> "", host |-> "up:80"]
    /\ forward.forwardUri = "http://up:80/a/?q=1"

\* the step is the return of the call to the primary upstream with a transport
\* error or a body that cannot be read (no response was taken over)
PrimaryFailed ==
    /\ req.pc = "primary" /\ req'.pc # "primary"
    /\ req'.upstreamStatus = IdleReq.upstreamStatus

\* C23: whenever the call to the primary upstream fails with a transport error
\* or its response body cannot be read, the client receives HTTP 500 for that
\* request, with and without the breaker
C23_UpstreamFailureIs500 ==
    [][PrimaryFailed => (req'.pc = "done" /\ req'.status = 500)]_vars

\* C24: Get(k) returns (v, true) exactly when the most recent Set for k stored
\* v and the expiry of that entry has not passed, and (nil, false) when k was
\* never set or the entry has expired, whether or not the janitor has removed
\* it
C24_GetHonoursExpiry ==
    cache.get.asked =>
        LET g == cache.get
            \* seconds since the most recent Set of the key
            fresh == g.lastSet.set /\ g.at - g.lastSet.at <= cache.ExpirationInterval
        IN /\ g.found <=> fresh
           /\ g.found => g.value = g.lastSet.value
           /\ ~g.found => g.value = NilValue

\* an expired entry that the janitor has not removed is not returned
C24_Witness ==
    /\ cache.get.asked /\ ~cache.get.found
    /\ cache.get.lastSet.set
    /\ cache.get.key \in DOMAIN cache.store
    /\ cache.get.at = now
    /\ now > cache.store[cache.get.key].expiry

\* C25: NewJwtAuth stores as secret exactly the bytes read when the read
\* succeeds and the default secret "test" when it fails; enabled, anonymous
\* and routes are those of the settings in both cases
C25_SecretOrDefault ==
    jwtAuth.made =>
        /\ ~jwtAuth.reader.err => jwtAuth.secret = jwtAuth.reader.data
        /\ jwtAuth.reader.err => jwtAuth.secret = "test"
        /\ jwtAuth.Enabled = jwtAuth.conf.Enabled
        /\ jwtAuth.Anonymous = jwtAuth.conf.Anonymous
        /\ jwtAuth.Routes = jwtAuth.conf.Routes

\* a reader that failed after some bytes: the default secret, not the bytes
C25_Witness ==
    /\ jwtAuth.made
    /\ jwtAuth.reader = [data |-> "s1", err |-> TRUE]
    /\ jwtAuth.secret = "test"
    /\ jwtAuth.conf.Enabled /\ jwtAuth.conf.Routes = {"/private", "/x"}

\* the stage at which HandleRequest stops for the arriving request, going
\* through the stages in the order lookup, per-service rate limit, allow-list,
\* auth, address, cache probe, forward, on the state the request finds
FirstStage ==
    LET in == req'.in
        n == ResolveName(in.parts)
        sv == IF n \in DOMAIN Services THEN Services[n] ELSE Nil
    IN IF sv = Nil THEN "resolve"
       ELSE LET conf == svcConf[sv]
                rl == conf.RateLimiter
                vis == svcVisitors[sv]
                tokenLeft == /\ in.addr.port # ""
                             /\ LimiterAllows(vis, in.addr.ip, rl, now)
                listed == /\ in.addr.port # ""
                          /\ ("ALL" \in svcWhitelist[sv] \/ in.addr.ip \in svcWhitelist[sv])
                authOk == Authenticate(conf.Auth, in.parts, in.token, now).err = "nil"
                key == GenerateCacheKey(n, in.parts, in.query)
                hit == /\ conf.Cache.Enabled
                       /\ key \in DOMAIN svcCache[sv]
                       /\ ~(now > svcCache[sv][key].expiry)
            IN IF rl.Enabled /\ ~tokenLeft THEN "ratelimit"
               ELSE IF ~listed THEN "whitelist"
               ELSE IF ~authOk THEN "auth"
               ELSE IF conf.Addr = NoAddress THEN "addr"
               ELSE IF hit THEN "cache"
               ELSE "forward"

\* the stages before auth
BeforeAuth == {"resolve", "ratelimit", "whitelist"}

\* C26: the stages of a request run in the order lookup, per-service rate
\* limit, allow-list, auth, address check, cache probe, forward; the request
\* ends at the first stage that rejects, and no later stage has an effect: no
\* header is added, no cache is written, no breaker changes and no upstream is
\* called
C26_StagesInOrder ==
    [][(Arrives /\ req'.stage # "middleware") =>
          /\ req'.stage = FirstStage
          /\ req'.stage # "forward" =>
                /\ req'.pc = "done"
                /\ req'.upstream = <<>>
                /\ svcBreaker' = svcBreaker
                /\ svcCache' = svcCache
          /\ req'.stage \in BeforeAuth \cup {"auth"} => req'.xclaims = req'.in.xclaims
          /\ req'.stage = "resolve" => svcVisitors' = svcVisitors]_vars

\* the allow-list refused a request whose path would have made Authenticate
\* fail: the allow-list comes first
C26_Witness ==
    /\ req.pc = "done" /\ req.stage = "whitelist" /\ req.status = 401
    /\ Len(req.in.parts) < 3
    /\ req.authErr = IdleReq.authErr

\* the heartbeat goroutine is inside its range over sr.Services, read lock held
HeartbeatProbing ==
    \E h \in Tasks : task[h].pc = "Heartbeat_probe" /\ h \in rwReaders

\* C27: while the heartbeat holds the registry read lock across a health
\* probe, every caller of GetService can take the read lock at once, also
\* when a Register, Update or Deregister is waiting for the write lock
C27_ReadersProceedDuringProbe ==
    HeartbeatProbing =>
        \A t \in Tasks : task[t].pc = "GetService" => ENABLED GetServiceRLock(t)

\* task t reads the map in this step: the lookup of GetService or the range
\* of json.Marshal in GetServices
MapReadStep(t) ==
    \/ task[t].pc = "GetService_read" /\ task'[t].pc = "GetService_ret"
    \/ task[t].pc = "idle" /\ task'[t].pc = "GetServices_ret"

\* C28: every read of the registry map, the snapshot of GET /services
\* included, is made with the registry lock held and overlaps no write of
\* Register, Update or Deregister
C28_ReadsHoldTheLock ==
    [][\A t \in Tasks : MapReadStep(t) => (t \in rwReaders /\ ~mapBusy)]_vars

\* the time of the most recent request the visitor's bucket admitted
\* (rate.Limiter.last; the creation time before the first one)
LastAdmitted(k) == bucket[visitors[k]].last

\* C29: a sweep evicts exactly the visitors whose most recent request is more
\* than cleanup seconds old: a visitor with a request admitted within the
\* last cleanup seconds survives the sweep with its bucket, and one without
\* is removed
C29_SweepEvictsExactlyTheIdle ==
    [][nextSweep' # nextSweep =>
          \A k \in Keys :
             visitors[k] # Nil =>
                IF now - LastAdmitted(k) > limiter.Cleanup
                THEN visitors'[k] = Nil
                ELSE visitors'[k] = visitors[k] /\ bucket' = bucket]_vars

\* the map keys that stand for source address ip: the IP itself and every
\* host:port of it
KeysOf(ip) == {ip} \cup {HostPort(a) : a \in {b \in RemoteAddrs : b.ip = ip}}

\* C30: a limiter of either flavor keys its visitors by source IP: requests
\* from one IP share one visitor whatever their source port, so the limiter
\* holds at most one visitor per source IP
C30_OneVisitorPerSourceIP ==
    \A ip \in IPs : Cardinality({k \in KeysOf(ip) : visitors[k] # Nil}) <= 1

\* C31: while a service's cache is disabled the pipeline neither answers a
\* request from its store nor writes to it: the store of a *Service whose
\* Cache.Enabled is false stays empty and no response comes from it
C31_DisabledCacheUntouched ==
    /\ \A i \in SvcIds : ~svcConf[i].Cache.Enabled => svcCache[i] = EmptyMap
    /\ (req.pc = "done" /\ req.stage = "cache") => svcConf[req.svc].Cache.Enabled

\* the service the request resolved has been deregistered while the request
\* was being handled
DeregisteredInFlight == req.svc # Nil /\ Lookup(req.name) = Nil

\* C32: a request whose service is deregistered while it is handled never
\* accesses the missing entry: every later lookup by name that returns none
\* is handled and the request ends with an HTTP response
C32_DeregisterInFlightIsHandled ==
    (req.pc = "done" /\ DeregisteredInFlight) => req.status # 0

\* the request carries a token whose signature verifies with the secret of the
\* service, on a route where authentication was applied
VerifiedToken ==
    /\ AuthApplied
    /\ req.in.token.kind = "jwt"
    /\ req.in.token.key = svcConf[req.svc].Auth.secret

\* C33: the X-Claims header an upstream (primary or fallback) receives holds
\* nothing but the value the gateway made from a token verified with the
\* service's secret on this request; a value supplied by the client is never
\* forwarded, on its own or next to the gateway's
C33_OnlyGatewayClaimsForwarded ==
    req.upstream # <<>> =>
        \/ req.upstreamXClaims = <<>>
        \/ VerifiedToken /\ req.upstreamXClaims = <<ClaimsJson(req.in.token)>>

\* C34: on a protected route with auth enabled Authenticate returns, for every
\* Authorization value, nil or one of its errors; a correctly signed token
\* without an exp claim is accepted or rejected like any other
C34_AuthenticateReturns ==
    AuthApplied => req.authErr \in {"nil", "ErrTokenMissing", "ErrInvalidToken"}

\* the arriving request is answered from the cache in this step
ServedFromCache == req.pc = "idle" /\ req'.pc = "done" /\ req'.stage = "cache"

\* the bytes the store of *Service sv holds
CachedBytes(sv) == {svcCache[sv][k].value : k \in DOMAIN svcCache[sv]}

\* C35: a response comes from a service's cache only for a request that, on
\* the state it finds, has a token left in the per-service bucket, is on the
\* allow-list and passes authentication; a request rejected by one of these
\* stages receives the rejection (401 or 429, or no response), never the 200
\* of a cache hit
C35_CacheOnlyBehindTheChecks ==
    [][/\ ServedFromCache =>
            LET in == req'.in
                sv == req'.svc
                conf == svcConf[sv]
            IN /\ conf.RateLimiter.Enabled =>
                    /\ in.addr.port # ""
                    /\ LimiterAllows(svcVisitors[sv], in.addr.ip, conf.RateLimiter, now)
               /\ in.addr.port # ""
               /\ "ALL" \in svcWhitelist[sv] \/ in.addr.ip \in svcWhitelist[sv]
               /\ Authenticate(conf.Auth, in.parts, in.token, now).err = "nil"
       /\ (req.pc = "idle" /\ req'.stage \in {"ratelimit", "whitelist", "auth"}) =>
            req'.status \in {0, 401, 429}]_vars

\* a request with a valid token from a listed address was answered from the
\* cache of a service with a closed allow-list and authentication
C35_Witness ==
    /\ req.pc = "done" /\ req.stage = "cache" /\ req.status = 200
    /\ svcConf[req.svc].Auth.Enabled /\ "ALL" \notin svcWhitelist[req.svc]
    /\ req.in.token = ValidToken
    /\ req.body \in CachedBytes(req.svc)

\* a POST /services/update (or a register over the entry) has stored a new
\* *Service under svc1 in this step
Replaced ==
    /\ req' = req /\ now' = now
    /\ Services["svc1"] # Nil /\ Services'["svc1"] # Nil

\* the policy objects of *Service i are as their constructors leave them: the
\* breaker Closed with zero counts, the cache empty, the limiter without
\* visitors
FreshPolicy(i) ==
    /\ svcBreaker[i].state = "closed" /\ svcBreaker[i].counts = ZeroCounts
    /\ svcCache[i] = EmptyMap
    /\ svcVisitors[i] = EmptyMap

\* C36: right after a successful update the service has new policy objects,
\* whatever the state of the old ones: its breaker is Closed with zero
\* counts, its cache is empty and its limiter has no visitors
C36_UpdateInstallsFreshPolicy ==
    [][Replaced =>
          LET i == Services'["svc1"]
          IN /\ svcBreaker'[i].state = "closed" /\ svcBreaker'[i].counts = ZeroCounts
             /\ svcCache'[i] = EmptyMap
             /\ svcVisitors'[i] = EmptyMap]_vars

\* the request in flight still holds the old *Service, its breaker Open and
\* its cache filled, while svc1 names the new one with fresh policy objects
C36_Witness ==
    /\ req.pc = "fallback"
    /\ Services["svc1"] \notin {Nil, req.svc}
    /\ svcBreaker[req.svc].state = "open"
    /\ svcCache[req.svc] # EmptyMap
    /\ FreshPolicy(Services["svc1"])

\* the primary upstream, called through the breaker, answers with an HTTP
\* status in this step
AnsweredThroughBreaker ==
    req.pc = "primary" /\ req.viaCB /\ req'.pc # "primary" /\ req'.upstreamStatus # 0

StoredEntry ==
    svcCache[req.cachedIn][GenerateCacheKey(req.name, req.in.parts, req.in.query)]

\* the request reached the cache probe of the service whose cache the previous
\* request, to the same URL and answered by the upstream with a status other
\* than 200, has filled, within the TTL
FollowsNon200 ==
    /\ req.pc = "done"
    /\ Probed
    /\ prev # NoPrev
    /\ prev.status # 200
    /\ req.svc = prev.svc
    /\ GenerateCacheKey(req.name, req.in.parts, req.in.query) = prev.key
    /\ svcConf[prev.svc].Cache.Enabled
    /\ now < prev.at + svcConf[prev.svc].Cache.ExpirationInterval

\* C38: every completed forward stores the upstream body in the cache,
\* whatever the upstream status, and every cache hit is answered 200; so the
\* request that follows an identical request answered with a status other than
\* 200 receives 200
C38_Non200IsCachedAs200 ==
    /\ (req.pc = "done" /\ req.stage = "forwarded") => StoredEntry.value = req.upstreamBody
    /\ (req.pc = "done" /\ req.stage = "cache") => req.status = 200
    /\ FollowsNon200 => (req.stage = "cache" /\ req.status = 200)

\* C39: every limiter constructed (at boot, on register, on update) has one
\* sweep loop, and a loop never ends, also after the service holding its
\* limiter was replaced or deregistered: the live loops are as many as the
\* limiters ever constructed and their number never decreases
C39_SweepLoopsNeverEnd ==
    [][/\ LiveLoops \subseteq LiveLoops'
       /\ Cardinality(LiveLoops') = Cardinality(Built')
       /\ Cardinality(LiveLoops') >= Cardinality(LiveLoops)]_vars

\* the limiters of a replaced and of a deregistered service are held by
\* nothing and their loops are in a sweep
C39_Witness ==
    /\ Cardinality(Built) = MaxLimiters
    /\ \E i, j \in LimiterIds :
          /\ i # j
          /\ sweepers[i].holder = "none" /\ sweepers[i].loop = "sweep"
          /\ sweepers[j].holder = "none" /\ sweepers[j].loop = "sweep"
    /\ HeldBy("svc1") = {}

\* the request was answered with the response of the fallback URI
AnsweredByFallback ==
    /\ req.pc = "done" /\ req.stage = "forwarded"
    /\ req.upstream # <<>> /\ req.upstream[Len(req.upstream)] = "fallback"

\* C40: a response obtained from the fallback URI is stored in the service's
\* cache under the key a response of the primary upstream is stored under, so
\* that an identical request within the TTL is answered from that entry
C40_FallbackResponseIsCached ==
    AnsweredByFallback =>
        /\ GenerateCacheKey(req.name, req.in.parts, req.in.query)
              \in DOMAIN svcCache[req.cachedIn]
        /\ StoredEntry.value = req.upstreamBody

====
